---- MODULE Spec2Model ----
(***************************************************************************)
(* Verification model of the mystery-game backend                          *)
(* (backend/app: services/game_service.py, services/llm_client.py,         *)
(* services/follow_up.py, services/scoring_service.py, schemas.py).        *)
(*                                                                         *)
(* Texts are sequences of tokens.  A token is either a structural          *)
(* character (white space, digit, punctuation, the two follow-up tags) or  *)
(* an opaque word.  A generator response is the outcome of one client      *)
(* call: a returned value or a raised exception class.                     *)
(*                                                                         *)
(* gemini_request is one call of GeminiLLMClient._request_with_retry, one  *)
(* step per attempt; codec is one text taken through the follow-up codec;  *)
(* call is one call of a function that reads no state of the service.      *)
(* Each has a specification of its own (SpecRetry, SpecCodec,              *)
(* SpecFunctions).  sessions holds the requests on one game that have      *)
(* loaded the game and not committed yet, each with the rows as its        *)
(* database session loaded them (SpecConcurrent).                          *)
(***************************************************************************)
EXTENDS Integers, Sequences, FiniteSets, TLC

VARIABLES settings, games, last, gemini_request, codec, call, sessions

vars == <<settings, games, last, gemini_request, codec, call, sessions>>

(***************************************************************************)
(* Bounds of the model.                                                    *)
(***************************************************************************)
\* largest configured max_questions explored
MaxQuestionsBound == 2

\* largest configured gemini_max_attempts explored
MaxAttemptsBound == 3

\* longest body, in tokens, given to the follow-up codec
MaxBodyLen == 2

\* how many times in a row a text is decoded
MaxDecodes == 2

\* how many requests on one game are handled at the same time
MaxSessions == 2

(***************************************************************************)
(* enums.py                                                                *)
(***************************************************************************)
GameStatus == {"INIT", "PLAYING", "GUESSING", "RESULT", "ENDED"}

LanguageMode == {"ja", "en"}

\* position of a status in the declared order INIT, PLAYING, GUESSING, RESULT, ENDED
StatusRank(s) ==
  CASE s = "INIT" -> 0
    [] s = "PLAYING" -> 1
    [] s = "GUESSING" -> 2
    [] s = "RESULT" -> 3
    [] s = "ENDED" -> 4

(***************************************************************************)
(* errors.py: the AppError values the service raises, and the response of  *)
(* the catch-all handler for any other exception.                          *)
(***************************************************************************)
NoStatus == "-"

not_found ==
  [status_code |-> 404, error_code |-> "NOT_FOUND", retryable |-> FALSE, detail_status |-> NoStatus]

conflict(status) ==
  [status_code |-> 409, error_code |-> "INVALID_STATE", retryable |-> FALSE, detail_status |-> status]

gemini_error ==
  [status_code |-> 502, error_code |-> "GEMINI_UNAVAILABLE", retryable |-> TRUE, detail_status |-> NoStatus]

unhandled_error_handler ==
  [status_code |-> 500, error_code |-> "INTERNAL_ERROR", retryable |-> FALSE, detail_status |-> NoStatus]

case_missing ==
  [status_code |-> 500, error_code |-> "CASE_MISSING", retryable |-> FALSE, detail_status |-> NoStatus]

Success(code) ==
  [status_code |-> code, error_code |-> "OK", retryable |-> FALSE, detail_status |-> NoStatus]

(***************************************************************************)
(* Outcomes of a call: a value or an exception class.                      *)
(***************************************************************************)
Ok(v) == [kind |-> "ok", value |-> v]

Raise(exc) == [kind |-> exc, value |-> <<>>]

(***************************************************************************)
(* Generic helpers on sequences.                                           *)
(***************************************************************************)
Range(s) == {s[i] : i \in 1..Len(s)}

Min(a, b) == IF a <= b THEN a ELSE b

Max(a, b) == IF a >= b THEN a ELSE b

(***************************************************************************)
(* Texts.  str.strip(), str.splitlines(), substring tests and the regular  *)
(* expressions of follow_up.py act on token sequences.                     *)
(***************************************************************************)
\* the white space str.strip() and \s remove
Whitespace == {" ", "\n"}

\* \d
Digits == {"0", "1", "2", "3", "4", "5", "6", "7", "8", "9"}

\* the character U+30FB, which line.strip(" \u30fb-") removes
KatakanaMiddleDot == "U+30FB"

FOLLOW_UP_OPEN_TAG == "<FOLLOW_UP_QUESTIONS>"

FOLLOW_UP_CLOSE_TAG == "</FOLLOW_UP_QUESTIONS>"

\* s[from..to] (empty when from > to)
Slice(s, from, to) == SubSeq(s, from, to)

\* str.lstrip(chars)
LStrip(s, chars) ==
  LET keep == {i \in 1..Len(s) : s[i] \notin chars}
  IN  IF keep = {} THEN <<>>
      ELSE Slice(s, CHOOSE i \in keep : \A j \in keep : i <= j, Len(s))

\* str.strip(chars)
StripChars(s, chars) ==
  LET keep == {i \in 1..Len(s) : s[i] \notin chars}
  IN  IF keep = {} THEN <<>>
      ELSE Slice(s, CHOOSE i \in keep : \A j \in keep : i <= j,
                    CHOOSE i \in keep : \A j \in keep : i >= j)

\* str.strip()
Strip(s) == StripChars(s, Whitespace)

\* str.splitlines(): the pieces between newline tokens, no final empty piece
RECURSIVE SplitLines(_)
SplitLines(s) ==
  IF s = <<>> THEN <<>>
  ELSE LET nl == {i \in 1..Len(s) : s[i] = "\n"}
       IN  IF nl = {} THEN <<s>>
           ELSE LET k == CHOOSE i \in nl : \A j \in nl : i <= j
                IN  <<Slice(s, 1, k - 1)>> \o SplitLines(Slice(s, k + 1, Len(s)))

\* "\n".join(parts)
RECURSIVE JoinLines(_)
JoinLines(parts) ==
  IF parts = <<>> THEN <<>>
  ELSE IF Len(parts) = 1 THEN parts[1]
  ELSE parts[1] \o <<"\n">> \o JoinLines(Tail(parts))

\* needle in haystack, for a needle that is a token sequence
Contains(haystack, needle) ==
  \E i \in 0..(Len(haystack) - Len(needle)) :
    \A j \in 1..Len(needle) : haystack[i + j] = needle[j]

\* the keywords that occur inside one token as substrings
KeywordsIn(t) ==
  CASE t = "at the time" -> {"at the time", "time"}
    [] t = "timeline" -> {"timeline", "time"}
    [] OTHER -> {t}

\* any(k in text for k in keywords), each keyword lying inside one token
ContainsAny(text, keywords) == \E i \in 1..Len(text) : KeywordsIn(text[i]) \cap keywords # {}

(***************************************************************************)
(* follow_up.py: the follow-up block codec.                                *)
(***************************************************************************)
default_follow_up_questions(language_mode) ==
  IF language_mode = "en"
  THEN << <<"Who", " ", "saw", " ", "the", " ", "victim", " ", "last?">>,
          <<"Where", " ", "were", " ", "you", " ", "when", " ", "it", " ", "happened?">>,
          <<"Who", " ", "had", " ", "conflict", " ", "with", " ", "the", " ", "victim?">> >>
  ELSE << <<"ja:who_saw_the_victim_last?">>,
          <<"ja:where_were_you_when_it_happened?">>,
          <<"ja:who_had_conflict_with_the_victim?">> >>

StripNumbering_without_Q_prefix(line) ==
  LET afterWs1 == LStrip(line, Whitespace)
      afterDigits == LStrip(afterWs1, Digits)
      afterWs2 == LStrip(afterDigits, Whitespace)
  IN  IF /\ Len(afterDigits) < Len(afterWs1)
         /\ afterWs2 # <<>>
         /\ Head(afterWs2) \in {":", ".", ")", "-"}
      THEN LStrip(Tail(afterWs2), Whitespace)
      ELSE line

\* re.sub(r"^(?:Q?\s*\d+\s*[:.)\-]\s*)", "", line, flags=re.IGNORECASE)
StripNumbering(line) ==
  LET afterQ == IF line # <<>> /\ Head(line) \in {"Q", "q"} THEN Tail(line) ELSE line
      afterWs1 == LStrip(afterQ, Whitespace)
      afterDigits == LStrip(afterWs1, Digits)
      afterWs2 == LStrip(afterDigits, Whitespace)
  IN  IF /\ Len(afterDigits) < Len(afterWs1)
         /\ afterWs2 # <<>>
         /\ Head(afterWs2) \in {":", ".", ")", "-"}
      THEN LStrip(Tail(afterWs2), Whitespace)
      ELSE line

\* the loop of _normalize_follow_up_questions over the first n questions
RECURSIVE CleanedQuestions(_, _)
CleanedQuestions(questions, n) ==
  IF n = 0 THEN <<>>
  ELSE LET cleaned == CleanedQuestions(questions, n - 1)
           stripped == Strip(questions[n])
           line == StripChars(StripNumbering(stripped), {" ", KatakanaMiddleDot, "-"})
       IN  IF Len(cleaned) >= 3 THEN cleaned
           ELSE IF stripped = <<>> \/ line = <<>> THEN cleaned
           ELSE IF line \in Range(cleaned) THEN cleaned
           ELSE Append(cleaned, line)

FilledQuestions_stopping_at_two(cleaned, fallback, n) ==
  SubSeq(cleaned \o fallback, 1, Min(2, Len(cleaned \o fallback)))

\* the fallback loop of _normalize_follow_up_questions over the first n defaults
RECURSIVE FilledQuestions(_, _, _)
FilledQuestions(cleaned, fallback, n) ==
  IF n = 0 THEN cleaned
  ELSE LET sofar == FilledQuestions(cleaned, fallback, n - 1)
       IN  IF Len(sofar) >= 3 THEN sofar
           ELSE IF fallback[n] \in Range(sofar) THEN sofar
           ELSE Append(sofar, fallback[n])

\* [:3]
FirstThree(questions) == SubSeq(questions, 1, Min(3, Len(questions)))

_normalize_follow_up_questions(questions, language_mode, with_default) ==
  FirstThree(IF ~with_default THEN CleanedQuestions(questions, Len(questions))
             ELSE FilledQuestions(CleanedQuestions(questions, Len(questions)),
                                  default_follow_up_questions(language_mode),
                                  Len(default_follow_up_questions(language_mode))))

\* f"Q{index + 1}: {question}"
FollowUpLine(index, question) ==
  <<"Q", CASE index = 1 -> "1" [] index = 2 -> "2" [] OTHER -> "3", ":", " ">> \o question

\* the lines "Q1: ...", "Q2: ..." of the block
FollowUpLines(normalized_questions) ==
  [i \in 1..Len(normalized_questions) |-> FollowUpLine(i, normalized_questions[i])]

append_follow_up_block(answer_text, questions, language_mode) ==
  JoinLines(<<IF Strip(answer_text) = <<>> THEN <<"...">> ELSE Strip(answer_text),
              <<>>, <<FOLLOW_UP_OPEN_TAG>>>>
            \o FollowUpLines(_normalize_follow_up_questions(questions, language_mode, FALSE))
            \o <<<<FOLLOW_UP_CLOSE_TAG>>>>)

FollowUpBlockMatch_greedy(raw_text) ==
  LET opens == {i \in 1..Len(raw_text) : raw_text[i] = FOLLOW_UP_OPEN_TAG}
      first == IF opens = {} THEN 0 ELSE CHOOSE i \in opens : \A j \in opens : i <= j
      closes == {i \in 1..Len(raw_text) : raw_text[i] = FOLLOW_UP_CLOSE_TAG /\ i > first}
  IN  IF opens = {} \/ closes = {} THEN <<0, 0>>
      ELSE <<first, CHOOSE i \in closes : \A j \in closes : i >= j>>

\* _FOLLOW_UP_BLOCK_RE.search(raw_text): <<start, end>> of the first match, or <<0, 0>>
FollowUpBlockMatch(raw_text) ==
  LET opens == {i \in 1..Len(raw_text) : raw_text[i] = FOLLOW_UP_OPEN_TAG}
      first == IF opens = {} THEN 0 ELSE CHOOSE i \in opens : \A j \in opens : i <= j
      closes == {i \in 1..Len(raw_text) : raw_text[i] = FOLLOW_UP_CLOSE_TAG /\ i > first}
  IN  IF opens = {} \/ closes = {} THEN <<0, 0>>
      ELSE <<first, CHOOSE i \in closes : \A j \in closes : i <= j>>

\* the non-empty stripped lines of the block between the tags
BlockLines(block) ==
  SelectSeq([i \in 1..Len(SplitLines(block)) |-> Strip(SplitLines(block)[i])],
            LAMBDA l : l # <<>>)

\* split_answer_and_follow_up_questions once the block is matched at `match`
SplitAt(raw_text, match, language_mode, with_default) ==
  IF match = <<0, 0>>
  THEN <<Strip(raw_text), _normalize_follow_up_questions(<<>>, language_mode, with_default)>>
  ELSE <<Strip(Slice(raw_text, 1, match[1] - 1)
               \o Slice(raw_text, match[2] + 1, Len(raw_text))),
         _normalize_follow_up_questions(
           BlockLines(Strip(Slice(raw_text, match[1] + 1, match[2] - 1))),
           language_mode, with_default)>>

\* returns <<answer_text, follow_up_questions>>
split_answer_and_follow_up_questions(raw_text, language_mode, with_default) ==
  SplitAt(raw_text, FollowUpBlockMatch(raw_text), language_mode, with_default)

(***************************************************************************)
(* schemas.py: CaseFile and its validators.  A payload is a JSON value:    *)
(* type "dict" with the case's fields, or another JSON type.  fields_ok    *)
(* says that every required field is present with the declared type.      *)
(***************************************************************************)
validate_characters_count(value) == 4 <= Len(value) /\ Len(value) <= 6

validate_evidence_count(value) == Len(value) >= 5

\* next(c for c in characters if c.id == id)
CharacterById(characters, id) ==
  characters[CHOOSE i \in 1..Len(characters) :
               /\ characters[i].id = id
               /\ \A j \in 1..Len(characters) : characters[j].id = id => i <= j]

validate_roles_allowing_the_same_id(self) ==
  LET character_ids == {self.characters[i].id : i \in 1..Len(self.characters)}
      liar_count == Cardinality({i \in 1..Len(self.characters) : self.characters[i].is_liar})
      killer_count == Cardinality({i \in 1..Len(self.characters) : self.characters[i].is_killer})
  IN  /\ self.killer_id \in character_ids
      /\ self.liar_id \in character_ids
      /\ liar_count = 1 /\ killer_count = 1
      /\ CharacterById(self.characters, self.liar_id).is_liar
      /\ CharacterById(self.characters, self.killer_id).is_killer

validate_roles(self) ==
  LET character_ids == {self.characters[i].id : i \in 1..Len(self.characters)}
      liar_count == Cardinality({i \in 1..Len(self.characters) : self.characters[i].is_liar})
      killer_count == Cardinality({i \in 1..Len(self.characters) : self.characters[i].is_killer})
  IN  /\ self.killer_id \in character_ids
      /\ self.liar_id \in character_ids
      /\ self.killer_id # self.liar_id
      /\ liar_count = 1 /\ killer_count = 1
      /\ CharacterById(self.characters, self.liar_id).is_liar
      /\ CharacterById(self.characters, self.killer_id).is_killer

\* CaseFile.model_validate(payload): the case, or ValidationError
CaseFile_model_validate(payload) ==
  IF /\ payload.type = "dict"
     /\ payload.fields_ok
     /\ validate_characters_count(payload.characters)
     /\ validate_evidence_count(payload.evidence)
     /\ validate_roles(payload)
  THEN Ok(payload)
  ELSE Raise("ValidationError")

(***************************************************************************)
(* local_case_factory.py: the deterministic case, as a function of the     *)
(* language and of the random draws (people, killer_index, liar_index,     *)
(* alibis).                                                                *)
(***************************************************************************)
JA_NAMES == <<"ja:Soma Rena", "ja:Kiryu Naoto", "ja:Miyamae Saki",
              "ja:Enami Tomoya", "ja:Naruse Yuka", "ja:Tojo Hikaru">>

EN_NAMES == <<"Rena Soma", "Naoto Kiryu", "Saki Miyamae",
              "Tomoya Enami", "Yuka Naruse", "Hikaru Tojo">>

CharacterIds == <<"c1", "c2", "c3", "c4", "c5">>

\* block["timeline"]: five (time, event) pairs, the same times in both languages
LocalTimeline(language_mode) ==
  LET tag == IF language_mode = "en" THEN "en:" ELSE "ja:"
  IN  << [time |-> <<"0", "9", ":", "3", "5">>, event |-> <<tag, "victim enters meeting room B">>],
         [time |-> <<"0", "9", ":", "5", "0">>, event |-> <<tag, "killer plants the cartridge unit">>],
         [time |-> <<"1", "0", ":", "0", "5">>, event |-> <<tag, "short blackout on 5F">>],
         [time |-> <<"1", "0", ":", "0", "7">>, event |-> <<tag, "latch timer activates">>],
         [time |-> <<"1", "0", ":", "1", "8">>, event |-> <<tag, "victim is found">>] >>

\* block["evidence"]: six items, ids e1..e6
LocalEvidence(language_mode) ==
  LET tag == IF language_mode = "en" THEN "en:" ELSE "ja:"
  IN  << [id |-> "e1", name |-> <<tag, "Bent Name Tag Clip">>],
         [id |-> "e2", name |-> <<tag, "Empty CO2 Cartridge">>],
         [id |-> "e3", name |-> <<tag, "Security Log Gap">>],
         [id |-> "e4", name |-> <<tag, "Smudged Delivery Gloves">>],
         [id |-> "e5", name |-> <<tag, "Incorrect Witness Timing">>],
         [id |-> "e6", name |-> <<tag, "Maintenance Memo">>] >>

\* block["alibi_templates"][k]
AlibiTemplate(language_mode, k) ==
  <<IF language_mode = "en" THEN "en:" ELSE "ja:",
    CASE k = 1 -> "handling deliveries near the pantry"
      [] k = 2 -> "in the operations desk area"
      [] k = 3 -> "by the elevator hall during the blackout"
      [] OTHER -> "checking visitor badges">>

build_local_case_flagging_from_zero(language_mode, draw) ==
  LET people_pool == IF language_mode = "en" THEN EN_NAMES ELSE JA_NAMES
      characters == [idx \in 1..5 |->
                       [id |-> CharacterIds[idx],
                        name |-> <<people_pool[draw.people[idx]]>>,
                        alibi |-> AlibiTemplate(language_mode, draw.alibis[idx]),
                        is_liar |-> (idx = draw.liar_index),
                        is_killer |-> (idx = draw.killer_index)]]
  IN  [type |-> "dict",
       fields_ok |-> TRUE,
       characters |-> characters,
       victim_name |-> <<IF language_mode = "en" THEN "Koichi Kuroda" ELSE "ja:Kuroda Koichi">>,
       killer_id |-> characters[draw.killer_index + 1].id,
       liar_id |-> characters[draw.liar_index + 1].id,
       motive |-> <<IF language_mode = "en" THEN "en:" ELSE "ja:", "feared", "exposure", "of", "expense", "fraud">>,
       method |-> <<IF language_mode = "en" THEN "en:" ELSE "ja:", "delayed", "CO2", "cartridge">>,
       trick |-> <<IF language_mode = "en" THEN "en:" ELSE "ja:", "delayed", "magnetic", "latch", "reset">>,
       timeline |-> LocalTimeline(language_mode),
       evidence |-> LocalEvidence(language_mode)]

build_local_case(language_mode, draw) ==
  LET people_pool == IF language_mode = "en" THEN EN_NAMES ELSE JA_NAMES
      characters == [idx \in 1..5 |->
                       [id |-> CharacterIds[idx],
                        name |-> <<people_pool[draw.people[idx]]>>,
                        alibi |-> AlibiTemplate(language_mode, draw.alibis[idx]),
                        is_liar |-> (idx - 1 = draw.liar_index),
                        is_killer |-> (idx - 1 = draw.killer_index)]]
  IN  [type |-> "dict",
       fields_ok |-> TRUE,
       characters |-> characters,
       victim_name |-> <<IF language_mode = "en" THEN "Koichi Kuroda" ELSE "ja:Kuroda Koichi">>,
       killer_id |-> characters[draw.killer_index + 1].id,
       liar_id |-> characters[draw.liar_index + 1].id,
       motive |-> <<IF language_mode = "en" THEN "en:" ELSE "ja:", "feared", "exposure", "of", "expense", "fraud">>,
       method |-> <<IF language_mode = "en" THEN "en:" ELSE "ja:", "delayed", "CO2", "cartridge">>,
       trick |-> <<IF language_mode = "en" THEN "en:" ELSE "ja:", "delayed", "magnetic", "latch", "reset">>,
       timeline |-> LocalTimeline(language_mode),
       evidence |-> LocalEvidence(language_mode)]

(***************************************************************************)
(* llm_client.py: FakeLLMClient.  len() of a text counts its tokens.       *)
(***************************************************************************)
\* str.lower() of a token: the character names are the capitalised tokens
LowerToken(t) ==
  CASE t = "Rena Soma" -> "rena soma"
    [] t = "Naoto Kiryu" -> "naoto kiryu"
    [] t = "Saki Miyamae" -> "saki miyamae"
    [] t = "Tomoya Enami" -> "tomoya enami"
    [] t = "Yuka Naruse" -> "yuka naruse"
    [] t = "Hikaru Tojo" -> "hikaru tojo"
    [] t = "Ann" -> "ann"
    [] t = "Bob" -> "bob"
    [] t = "Cy" -> "cy"
    [] t = "Dee" -> "dee"
    [] t = "Where" -> "where"
    [] OTHER -> t

Lower(text) == [i \in 1..Len(text) |-> LowerToken(text[i])]

\* sequence[min(n, len(sequence) - 1)]: IndexError on an empty list
IndexClamped(sequence, n) ==
  IF Len(sequence) = 0 THEN Raise("IndexError")
  ELSE Ok(sequence[Min(n, Len(sequence) - 1) + 1])

TimeLiteral1012 == <<"1", "0", ":", "1", "2">>

FakeLLMClient_generate_case(language_mode, draw) == Ok(build_local_case(language_mode, draw))

FakeLLMClient_answer_question(case_data, question, history, language_mode) ==
  LET q == Lower(question)
      killer == CharacterById(case_data.characters, case_data.killer_id)
      hits == {i \in 1..Len(case_data.characters) : Contains(q, Lower(case_data.characters[i].name))}
      mentioned == case_data.characters[CHOOSE i \in hits : \A j \in hits : i <= j]
      lied_before == \E k \in 1..Len(history) :
                        /\ Contains(history[k].answer, mentioned.name)
                        /\ Contains(history[k].answer, TimeLiteral1012)
      first == IndexClamped(case_data.evidence, Len(history))
      event == IndexClamped(case_data.timeline, Len(history))
      en == language_mode = "en"
      tag == IF en THEN "en:" ELSE "ja:"
  IN  IF ContainsAny(q, IF en THEN {"killer", "who did it", "solution"}
                              ELSE {"ja:hannin", "ja:shinsou", "ja:kotae"})
      THEN Ok(<<tag, "cannot reveal the final answer yet">>)
      ELSE IF hits # {}
      THEN IF mentioned.is_liar
           THEN IF ~lied_before
                THEN Ok(<<tag, "according to", " ">> \o mentioned.name
                        \o <<" ", "victim was speaking at", " ">> \o TimeLiteral1012)
                ELSE Ok(mentioned.name \o <<" ", tag, "now claims they stayed near the elevator hall">>)
           ELSE Ok(mentioned.name \o <<" ", tag, "stated alibi is", " ">> \o mentioned.alibi)
      ELSE IF ContainsAny(q, IF en THEN {"evidence", "proof", "clue"}
                                   ELSE {"ja:shouko", "ja:tegakari(kanji)", "ja:tegakari(kana)"})
      THEN IF first.kind # "ok" THEN first
           ELSE Ok(<<tag, "one clue is", " ">> \o first.value.name)
      ELSE IF ContainsAny(q, IF en THEN {"timeline", "time", "when"}
                                   ELSE {"ja:jikeiretsu", "ja:jikan", "ja:itsu"})
      THEN IF event.kind # "ok" THEN event
           ELSE Ok(<<tag, "at", " ">> \o event.value.time \o <<",", " ">> \o event.value.event)
      ELSE IF ContainsAny(q, IF en THEN {"motive", "why"} ELSE {"ja:douki", "ja:naze"})
      THEN Ok(<<tag, "the motive likely ties to hidden financial pressure">>)
      ELSE IF ContainsAny(q, IF en THEN {"method", "how"}
                                   ELSE {"ja:teguchi", "ja:houhou", "ja:douyatte"})
      THEN Ok(<<tag, "the method likely involved delayed gas release">>)
      ELSE IF ContainsAny(q, IF en THEN {"alibi"} ELSE {"ja:aribai"})
      THEN Ok(<<tag, "compare the blackout window with", " ">> \o killer.name \o <<" ", "movements">>)
      ELSE IF Len(Strip(question)) < 3
      THEN Ok(<<tag, "could you narrow it down?">>)
      ELSE Ok(<<tag, "focus on the blackout window">>)

\* a JSON object {"contradiction": ..., "fixed_answer": ...}
ContradictionDict(contradiction, fixed_answer) ==
  [type |-> "dict", contradiction |-> contradiction, fixed_answer |-> fixed_answer]

FakeLLMClient_contradiction_check(case_data, question, answer, language_mode) ==
  LET killer == CharacterById(case_data.characters, case_data.killer_id)
  IN  IF /\ Contains(answer, killer.name)
         /\ (Contains(answer, <<"ja:hannin">>) \/ Contains(Lower(answer), <<"killer">>))
      THEN Ok(ContradictionDict(TRUE,
                <<IF language_mode = "ja" THEN "ja:" ELSE "en:", "too early to identify the killer">>))
      ELSE Ok(ContradictionDict(FALSE, answer))

\* None
JsonNull == [type |-> "null"]

FakeLLMClient_score_guess(case_data, guess, language_mode) == Ok(JsonNull)

(***************************************************************************)
(* llm_client.py: GeminiLLMClient.  request is the outcome of              *)
(* _request_with_retry: LLMError, or the response text.  The text of a     *)
(* JSON response records what json.loads and the brace search make of it.  *)
(***************************************************************************)
\* a response text: parses (json.loads(cleaned) succeeds), has_braces (the
\* text holds "{" ... "}"), braces_parse (json.loads of that part succeeds)
JsonText(parses, has_braces, braces_parse, value) ==
  [parses |-> parses, has_braces |-> has_braces, braces_parse |-> braces_parse, value |-> value]

_extract_json(raw_text) ==
  IF raw_text.parses THEN Ok(raw_text.value)
  ELSE IF ~raw_text.has_braces THEN Raise("LLMError")
  ELSE IF raw_text.braces_parse THEN Ok(raw_text.value)
  ELSE Raise("ValueError")

GeminiLLMClient_generate_case(request) ==
  IF request.kind # "ok" THEN request ELSE _extract_json(request.value)

GeminiLLMClient_answer_question(request) == request

GeminiLLMClient_contradiction_check(request) ==
  IF request.kind # "ok" THEN request ELSE _extract_json(request.value)

GeminiLLMClient_score_guess(request) ==
  IF request.kind # "ok" THEN request ELSE _extract_json(request.value)

(***************************************************************************)
(* llm_client.py: GeminiLLMClient._request_with_retry.  An attempt is one  *)
(* call of _request; its outcome is the text of the response, a            *)
(* genai_errors.APIError with or without an integer code, an LLMError      *)
(* (empty or blocked response, missing API key, invalid thinking           *)
(* configuration) or any other exception.  Delays are in tenths of a       *)
(* second.                                                                 *)
(***************************************************************************)
RETRIABLE_GEMINI_STATUS_CODES == {408, 429, 500, 502, 503, 504}

\* genai_errors.APIError whose code attribute is the integer `code`
APIError(code) == [kind |-> "APIError", has_code |-> TRUE, code |-> code, value |-> <<>>]

\* genai_errors.APIError whose code attribute is None
APIErrorWithoutCode == [kind |-> "APIError", has_code |-> FALSE, code |-> 0, value |-> <<>>]

\* LLMError raised inside _request, with what raised it
RequestLLMError(raised_by) ==
  [kind |-> "LLMError", has_code |-> FALSE, code |-> 0, value |-> <<raised_by>>]

\* any other exception raised inside _request
UnexpectedException == [kind |-> "Exception", has_code |-> FALSE, code |-> 0, value |-> <<>>]

\* the text _request returns
ResponseText(text) == [kind |-> "ok", has_code |-> FALSE, code |-> 0, value |-> text]

_should_retry(exc) == exc.has_code /\ exc.code \in RETRIABLE_GEMINI_STATUS_CODES

\* 2**attempt
RECURSIVE PowerOfTwo(_)
PowerOfTwo(attempt) == IF attempt = 0 THEN 1 ELSE 2 * PowerOfTwo(attempt - 1)

\* the 0.1 of max(self.settings.gemini_retry_delay_sec, 0.1)
SmallestBaseDelay == 1

\* base = max(self.settings.gemini_retry_delay_sec, 0.1)
BaseDelay(s) == Max(s.gemini_retry_delay_sec, SmallestBaseDelay)

_next_delay_sec_uncapped(s, attempt, jitter) ==
  BaseDelay(s) * PowerOfTwo(attempt) + jitter

\* jitter = random.uniform(0, base) makes the delay min(exponential + jitter, max_delay)
_next_delay_sec(s, attempt, jitter) ==
  Min(BaseDelay(s) * PowerOfTwo(attempt) + jitter,
      Max(s.gemini_retry_max_delay_sec, BaseDelay(s)))

MaxAttempts_unclamped(s) == s.gemini_max_attempts

\* max_attempts = max(1, self.settings.gemini_max_attempts)
MaxAttempts(s) == Max(1, s.gemini_max_attempts)

\* raise LLMError("; ".join(errors)), after the break or the end of the loop
RequestRaised(request, attempts) ==
  [request EXCEPT !.attempts = attempts, !.pc = "raised",
                  !.result = Raise("LLMError")]

\* time.sleep(delay_sec), then the next iteration of the loop
RequestSleeps(request, attempts, delay_sec) ==
  [request EXCEPT !.attempts = attempts, !.slept = Append(@, delay_sec)]

\* one iteration of the for loop of _request_with_retry: `attempt` is the
\* loop variable, `outcome` what self._request(...) did
RequestIteration(s, request, attempt, outcome, jitter) ==
  IF outcome.kind = "ok"
  THEN [request EXCEPT !.attempts = Append(@, outcome), !.pc = "returned",
                       !.result = Ok(outcome.value)]
  ELSE IF outcome.kind = "APIError"
  THEN IF attempt >= MaxAttempts(s) - 1 \/ ~_should_retry(outcome)
       THEN RequestRaised(request, Append(request.attempts, outcome))
       ELSE RequestSleeps(request, Append(request.attempts, outcome),
                          _next_delay_sec(s, attempt, jitter))
  ELSE IF attempt >= MaxAttempts(s) - 1
       THEN RequestRaised(request, Append(request.attempts, outcome))
       ELSE RequestSleeps(request, Append(request.attempts, outcome),
                          _next_delay_sec(s, attempt, jitter))

\* _request_with_retry from the head of its loop: range(max_attempts) is
\* used up, or one more iteration runs
_request_with_retry(s, request, outcome, jitter) ==
  IF Len(request.attempts) >= MaxAttempts(s)
  THEN RequestRaised(request, request.attempts)
  ELSE RequestIteration(s, request, Len(request.attempts), outcome, jitter)

(***************************************************************************)
(* llm_client.py: FallbackLLMClient and build_llm_client.                  *)
(***************************************************************************)
\* try: return primary  except (LLMError, ValueError): return fallback
FallbackLLMClient_call(primary, fallback) ==
  IF primary.kind \in {"LLMError", "ValueError"} THEN fallback ELSE primary

build_llm_client(s) ==
  IF s.llm_provider = "gemini"
  THEN IF s.gemini_fallback_to_fake THEN "fallback" ELSE "gemini"
  ELSE "fake"

\* llm_client.generate_case(language_mode) of the configured client
llm_generate_case(client, language_mode, request, draw) ==
  CASE client = "fake" -> FakeLLMClient_generate_case(language_mode, draw)
    [] client = "gemini" -> GeminiLLMClient_generate_case(request)
    [] OTHER -> FallbackLLMClient_call(GeminiLLMClient_generate_case(request),
                                       FakeLLMClient_generate_case(language_mode, draw))

llm_answer_question(client, case_data, question, history, language_mode, request) ==
  CASE client = "fake" -> FakeLLMClient_answer_question(case_data, question, history, language_mode)
    [] client = "gemini" -> GeminiLLMClient_answer_question(request)
    [] OTHER -> FallbackLLMClient_call(GeminiLLMClient_answer_question(request),
                  FakeLLMClient_answer_question(case_data, question, history, language_mode))

llm_contradiction_check(client, case_data, question, answer, language_mode, request) ==
  CASE client = "fake" -> FakeLLMClient_contradiction_check(case_data, question, answer, language_mode)
    [] client = "gemini" -> GeminiLLMClient_contradiction_check(request)
    [] OTHER -> FallbackLLMClient_call(GeminiLLMClient_contradiction_check(request),
                  FakeLLMClient_contradiction_check(case_data, question, answer, language_mode))

llm_score_guess(client, case_data, guess, language_mode, request) ==
  CASE client = "fake" -> FakeLLMClient_score_guess(case_data, guess, language_mode)
    [] client = "gemini" -> GeminiLLMClient_score_guess(request)
    [] OTHER -> FallbackLLMClient_call(GeminiLLMClient_score_guess(request),
                                       FakeLLMClient_score_guess(case_data, guess, language_mode))

(***************************************************************************)
(* follow_up.py: heuristic_follow_up_questions.                            *)
(***************************************************************************)
\* the four candidates built from the victim's name, the timeline event and
\* the evidence item
FollowUpCandidates(language_mode, victim_name, timeline_event, evidence) ==
  IF language_mode = "en"
  THEN << <<"Who was near", " ">> \o victim_name \o <<" ", "around", " ">>
            \o timeline_event.time \o <<"?">>,
          <<"Who had the strongest conflict tied to", " ">> \o victim_name \o <<"?">>,
          <<"How does the evidence", " ">> \o evidence.name
            \o <<" ", "narrow the murder method?">>,
          <<"What concrete steps could create the locked-room trick here?">> >>
  ELSE << timeline_event.time \o <<"ja:zengo ni">> \o victim_name
            \o <<"ja:no chikaku ni ita jinbutsu wa dare?">>,
          victim_name \o <<"ja:to rigai tairitsu ga mottomo tsuyokatta jinbutsu wa dare?">>,
          <<"ja:shouko">> \o evidence.name \o <<"ja:wa dono teguchi wo urazukeru?">>,
          <<"ja:kono genba de misshitsu torikku wo seiritsu saseru tejun wa?">> >>

heuristic_follow_up_questions_rotating_by_three(case_data, language_mode, history_count) ==
  LET evidence == IndexClamped(case_data.evidence, history_count)
      timeline_event == IndexClamped(case_data.timeline, history_count)
      rotation == history_count % 3
  IN  IF evidence.kind # "ok" THEN evidence
      ELSE IF timeline_event.kind # "ok" THEN timeline_event
      ELSE Ok([offset \in 1..3 |->
                 FollowUpCandidates(language_mode, case_data.victim_name,
                                    timeline_event.value,
                                    evidence.value)[((rotation + offset - 1) % 4) + 1]])

heuristic_follow_up_questions(case_data, language_mode, history_count) ==
  LET evidence == IndexClamped(case_data.evidence, history_count)
      timeline_event == IndexClamped(case_data.timeline, history_count)
      rotation == history_count % 4
  IN  IF evidence.kind # "ok" THEN evidence
      ELSE IF timeline_event.kind # "ok" THEN timeline_event
      ELSE Ok([offset \in 1..3 |->
                 FollowUpCandidates(language_mode, case_data.victim_name,
                                    timeline_event.value,
                                    evidence.value)[((rotation + offset - 1) % 4) + 1]])

(***************************************************************************)
(* game_service.py: helpers of GameService.                                *)
(***************************************************************************)
\* sequence[index] for a 0-based index: IndexError past the end
IndexAt(sequence, index) ==
  IF index >= Len(sequence) THEN Raise("IndexError") ELSE Ok(sequence[index + 1])

_answer_has_named_actor(answer, case_obj) ==
  \E i \in 1..Len(case_obj.characters) : Contains(answer, case_obj.characters[i].name)

_build_explicit_actor_answer_evidence_first(case_obj, question, language_mode) ==
  LET first == IndexAt(case_obj.characters, 0)
      second == IndexAt(case_obj.characters, 1)
      third == IndexAt(case_obj.characters, 2)
      first_event == IndexAt(case_obj.timeline, 0)
      first_evidence == IndexAt(case_obj.evidence, 0)
      q == Lower(question)
      f == first.value
      s == second.value
      t == third.value
  IN  IF \E x \in {first, second, third, first_event, first_evidence} : x.kind # "ok"
      THEN Raise("IndexError")
      ELSE IF language_mode = "en"
      THEN IF ContainsAny(q, {"where", "alibi", "at the time", "when"})
              /\ ~ContainsAny(q, {"evidence", "clue", "proof"})
           THEN Ok(f.name \o <<" ", "says:", " ">> \o f.alibi \o <<" ">>
                   \o s.name \o <<" ", "says:", " ">> \o s.alibi)
           ELSE IF ContainsAny(q, {"evidence", "clue", "proof"})
           THEN Ok(<<"For evidence", " ">> \o first_evidence.value.name \o <<",", " ", "compare", " ">>
                   \o f.name \o <<" ", "account", " ">> \o f.alibi \o <<" ", "with", " ">>
                   \o s.name \o <<" ", "account", " ">> \o s.alibi)
           ELSE Ok(<<"At", " ">> \o first_event.value.time \o <<",", " ">> \o first_event.value.event
                   \o <<" ">> \o f.name \o <<" ", "says:", " ">> \o f.alibi \o <<" ">>
                   \o t.name \o <<" ", "says:", " ">> \o t.alibi)
      ELSE IF /\ ContainsAny(question, {"ja:doko", "ja:aribai", "ja:touji", "ja:itsu"})
              /\ ~ContainsAny(question, {"ja:shouko", "ja:tegakari(kanji)", "ja:tegakari(kana)"})
           THEN Ok(f.name \o <<"ja:wa">> \o f.alibi \o <<"ja:to shougen shiteimasu.">>
                   \o s.name \o <<"ja:wa">> \o s.alibi \o <<"ja:to shougen shiteimasu.">>)
           ELSE IF ContainsAny(question, {"ja:shouko", "ja:tegakari(kanji)", "ja:tegakari(kana)"})
           THEN Ok(<<"ja:shouko">> \o first_evidence.value.name \o <<"ja:no kakunin dewa,">>
                   \o f.name \o <<"ja:no koudou">> \o f.alibi \o <<"ja:to">>
                   \o s.name \o <<"ja:no koudou">> \o s.alibi \o <<"ja:wo shougou shite kudasai.">>)
           ELSE Ok(first_event.value.time \o <<"ja:no jiten dewa">> \o first_event.value.event
                   \o <<"ja:.">> \o f.name \o <<"ja:wa">> \o f.alibi \o <<"ja:,">>
                   \o t.name \o <<"ja:wa">> \o t.alibi \o <<"ja:to shougen shiteimasu.">>)

_build_explicit_actor_answer(case_obj, question, language_mode) ==
  LET first == IndexAt(case_obj.characters, 0)
      second == IndexAt(case_obj.characters, 1)
      third == IndexAt(case_obj.characters, 2)
      first_event == IndexAt(case_obj.timeline, 0)
      first_evidence == IndexAt(case_obj.evidence, 0)
      q == Lower(question)
      f == first.value
      s == second.value
      t == third.value
  IN  IF \E x \in {first, second, third, first_event, first_evidence} : x.kind # "ok"
      THEN Raise("IndexError")
      ELSE IF language_mode = "en"
      THEN IF ContainsAny(q, {"where", "alibi", "at the time", "when"})
           THEN Ok(f.name \o <<" ", "says:", " ">> \o f.alibi \o <<" ">>
                   \o s.name \o <<" ", "says:", " ">> \o s.alibi)
           ELSE IF ContainsAny(q, {"evidence", "clue", "proof"})
           THEN Ok(<<"For evidence", " ">> \o first_evidence.value.name \o <<",", " ", "compare", " ">>
                   \o f.name \o <<" ", "account", " ">> \o f.alibi \o <<" ", "with", " ">>
                   \o s.name \o <<" ", "account", " ">> \o s.alibi)
           ELSE Ok(<<"At", " ">> \o first_event.value.time \o <<",", " ">> \o first_event.value.event
                   \o <<" ">> \o f.name \o <<" ", "says:", " ">> \o f.alibi \o <<" ">>
                   \o t.name \o <<" ", "says:", " ">> \o t.alibi)
      ELSE IF ContainsAny(question, {"ja:doko", "ja:aribai", "ja:touji", "ja:itsu"})
           THEN Ok(f.name \o <<"ja:wa">> \o f.alibi \o <<"ja:to shougen shiteimasu.">>
                   \o s.name \o <<"ja:wa">> \o s.alibi \o <<"ja:to shougen shiteimasu.">>)
           ELSE IF ContainsAny(question, {"ja:shouko", "ja:tegakari(kanji)", "ja:tegakari(kana)"})
           THEN Ok(<<"ja:shouko">> \o first_evidence.value.name \o <<"ja:no kakunin dewa,">>
                   \o f.name \o <<"ja:no koudou">> \o f.alibi \o <<"ja:to">>
                   \o s.name \o <<"ja:no koudou">> \o s.alibi \o <<"ja:wo shougou shite kudasai.">>)
           ELSE Ok(first_event.value.time \o <<"ja:no jiten dewa">> \o first_event.value.event
                   \o <<"ja:.">> \o f.name \o <<"ja:wa">> \o f.alibi \o <<"ja:,">>
                   \o t.name \o <<"ja:wa">> \o t.alibi \o <<"ja:to shougen shiteimasu.">>)

\* game.case is None -> CASE_MISSING; else CaseFile.model_validate(game.case.payload)
_case_of_game(game) ==
  IF Len(game.case) = 0 THEN Raise("CASE_MISSING")
  ELSE CaseFile_model_validate(game.case[1])

_history_of_game(game) ==
  [k \in 1..Len(game.messages) |->
     [question |-> game.messages[k].question,
      answer |-> split_answer_and_follow_up_questions(
                   game.messages[k].answer_text, game.messages[k].language_mode, FALSE)[1]]]

_unlock_next_evidence_past_the_end(game, case_obj) ==
  IF game.unlocked_evidence_count > Len(case_obj.evidence)
  THEN <<game.unlocked_evidence_count, 0>>
  ELSE <<game.unlocked_evidence_count + 1, game.unlocked_evidence_count + 1>>

\* returns <<unlocked_evidence_count afterwards, 1-based index of the item unlocked or 0>>
_unlock_next_evidence(game, case_obj) ==
  IF game.unlocked_evidence_count >= Len(case_obj.evidence)
  THEN <<game.unlocked_evidence_count, 0>>
  ELSE <<game.unlocked_evidence_count + 1, game.unlocked_evidence_count + 1>>

_generate_validated_case_retrying_provider_errors(attempts) ==
  LET validated(k) == IF attempts[k].kind = "ok" THEN CaseFile_model_validate(attempts[k].value)
                      ELSE attempts[k]
      first == validated(1)
      second == validated(2)
  IN  IF first.kind = "ok" THEN [result |-> first, calls |-> 1]
      ELSE IF second.kind = "ok" THEN [result |-> second, calls |-> 2]
      ELSE [result |-> Raise("gemini_error"), calls |-> 2]

\* the two attempts of _generate_validated_case; attempts[k] is the outcome
\* of the k-th generate_case call.  Returns [result, calls].
_generate_validated_case(attempts) ==
  LET validated(k) == IF attempts[k].kind = "ok" THEN CaseFile_model_validate(attempts[k].value)
                      ELSE attempts[k]
      first == validated(1)
      second == validated(2)
  IN  IF first.kind = "ok" THEN [result |-> first, calls |-> 1]
      ELSE IF first.kind = "LLMError" THEN [result |-> Raise("gemini_error"), calls |-> 1]
      ELSE IF first.kind \notin {"ValueError", "ValidationError"}
      THEN [result |-> Raise("unhandled"), calls |-> 1]
      ELSE IF second.kind = "ok" THEN [result |-> second, calls |-> 2]
      ELSE IF second.kind \in {"LLMError", "ValueError", "ValidationError"}
      THEN [result |-> Raise("gemini_error"), calls |-> 2]
      ELSE [result |-> Raise("unhandled"), calls |-> 2]

(***************************************************************************)
(* scoring_service.py.  difflib.SequenceMatcher(None, a, b).ratio() is     *)
(* 2*M/T, M the total size of the matching blocks (longest block first,    *)
(* earliest in a, then earliest in b, then the same to its left and to its *)
(* right), T the two lengths together; texts stay below the 200 elements   *)
(* at which the automatic junk heuristic starts.                           *)
(***************************************************************************)
\* tokens that re.split splits on: neither \w nor kana nor a CJK ideograph
Separators == Whitespace \cup {":", ".", ")", "-", ",", "?", "...",
                               FOLLOW_UP_OPEN_TAG, FOLLOW_UP_CLOSE_TAG}

\* re.sub(r"\s+", "", text.strip().lower())
_normalize(text) == SelectSeq(Lower(Strip(text)), LAMBDA c : c \notin Whitespace)

\* the set of maximal runs of non-separator tokens of text.lower()
_tokenize(text) ==
  LET low == Lower(text)
      word(i) == low[i] \notin Separators
  IN  {SubSeq(low, i, j) : <<i, j>> \in
         {<<i, j>> \in (1..Len(low)) \X (1..Len(low)) :
            /\ i <= j
            /\ \A k \in i..j : word(k)
            /\ (i = 1 \/ ~word(i - 1))
            /\ (j = Len(low) \/ ~word(j + 1))}}

\* matching blocks of a[alo..ahi-1] and b[blo..bhi-1], 1-based, summed
RECURSIVE MatchingSize(_, _, _, _, _, _)
MatchingSize(a, b, alo, ahi, blo, bhi) ==
  LET blocks == {x \in (alo..(ahi - 1)) \X (blo..(bhi - 1)) \X (1..Min(ahi - alo, bhi - blo)) :
                   /\ x[1] + x[3] <= ahi
                   /\ x[2] + x[3] <= bhi
                   /\ \A d \in 0..(x[3] - 1) : a[x[1] + d] = b[x[2] + d]}
      better(x, y) == \/ x[3] > y[3]
                      \/ x[3] = y[3] /\ x[1] < y[1]
                      \/ x[3] = y[3] /\ x[1] = y[1] /\ x[2] <= y[2]
      best == CHOOSE x \in blocks : \A y \in blocks : better(x, y)
  IN  IF blocks = {} THEN 0
      ELSE best[3]
           + MatchingSize(a, b, alo, best[1], blo, best[2])
           + MatchingSize(a, b, best[1] + best[3], ahi, best[2] + best[3], bhi)

\* int(round(n / d)) for n >= 0, d > 0: round half to even
RoundHalfEven(n, d) ==
  LET fl == n \div d
      rem == n % d
  IN  IF 2 * rem < d THEN fl
      ELSE IF 2 * rem > d THEN fl + 1
      ELSE IF fl % 2 = 0 THEN fl ELSE fl + 1

Blended_matching_from_three_quarters(ratio_num, ratio_den, overlap_num, overlap_den, max_points) ==
  LET ratio_wins == ratio_num * overlap_den >= overlap_num * ratio_den
      points == RoundHalfEven(max_points * (IF ratio_wins THEN ratio_num ELSE overlap_num),
                              IF ratio_wins THEN ratio_den ELSE overlap_den)
  IN  <<Min(max_points, points), points >= (max_points * 3) \div 4>>

\* the blend of the two ratios and the points of it: <<points, match>>
Blended(ratio_num, ratio_den, overlap_num, overlap_den, max_points) ==
  LET ratio_wins == ratio_num * overlap_den >= overlap_num * ratio_den
      points == RoundHalfEven(max_points * (IF ratio_wins THEN ratio_num ELSE overlap_num),
                              IF ratio_wins THEN ratio_den ELSE overlap_den)
  IN  <<Min(max_points, points), points >= (max_points * 6) \div 10>>

\* _semantic_score on the normalized texts a, t and the token sets ta, tt
ScoreOfNormalized(a, t, ta, tt, max_points) ==
  IF a = <<>> \/ t = <<>> THEN <<0, FALSE>>
  ELSE Blended(2 * MatchingSize(a, t, 1, Len(a) + 1, 1, Len(t) + 1), Len(a) + Len(t),
               Cardinality(ta \cap tt), Max(1, Cardinality(tt)), max_points)

\* returns <<points, match>>
_semantic_score(answer, truth, max_points) ==
  ScoreOfNormalized(_normalize(answer), _normalize(truth), _tokenize(answer), _tokenize(truth),
                    max_points)

_grade(score) ==
  IF score >= 90 THEN "S"
  ELSE IF score >= 75 THEN "A"
  ELSE IF score >= 60 THEN "B"
  ELSE "C"

ScoringService_weaknesses_ignoring_the_trick(language_mode, killer_match, motive_match, method_match, trick_match) ==
  << IF ~killer_match THEN <<language_mode, "wrong killer selection">>
                      ELSE <<language_mode, "claims not connected to evidence">>,
     IF ~motive_match THEN <<language_mode, "motive analysis missed financial pressure">>
                      ELSE <<language_mode, "timeline interpretation needs validation">>,
     IF ~method_match THEN <<language_mode, "mechanism underexplained">>
                      ELSE <<language_mode, "liar testimony not cross-checked">> >>

\* the three entries name which boilerplate each slot holds
ScoringService_weaknesses(language_mode, killer_match, motive_match, method_match, trick_match) ==
  << IF ~killer_match THEN <<language_mode, "wrong killer selection">>
                      ELSE <<language_mode, "claims not connected to evidence">>,
     IF ~motive_match THEN <<language_mode, "motive analysis missed financial pressure">>
                      ELSE <<language_mode, "timeline interpretation needs validation">>,
     IF ~method_match \/ ~trick_match THEN <<language_mode, "mechanism underexplained">>
                                      ELSE <<language_mode, "liar testimony not cross-checked">> >>

\* a JSON object as score_guess may return it: has_required says that the
\* seven required keys are present, matches_is_dict that "matches" is an object
_llm_payload_looks_valid(payload) == payload.has_required /\ payload.matches_is_dict

\* bool(llm_result)
Truthy(json) ==
  CASE json.type = "null" -> FALSE
    [] json.type = "dict" -> ~json.empty
    [] json.type = "list" -> ~json.empty
    [] OTHER -> TRUE

\* lines 95-105 of evaluate: the feedback text of the rubric
RubricFeedback(language_mode, killer_match, motive_points, method_points, trick_points) ==
  IF language_mode = "en"
  THEN <<"Killer", " ", IF killer_match THEN "correct" ELSE "incorrect", ".", " ",
         "Motive/method/trick alignment:", " ", ToString(motive_points), "/20", ",", " ",
         ToString(method_points), "/20", ",", " ", ToString(trick_points), "/20", ".">>
  ELSE <<"ja:hannin suitei wa", IF killer_match THEN "ja:seikai" ELSE "ja:fuseikai", "ja:.",
         "ja:douki/teguchi/torikku no icchido wa", " ", ToString(motive_points), "/20", ",",
         " ", ToString(method_points), "/20", ",", " ", ToString(trick_points), "/20", " ",
         "ja:desu.">>

Rubric_with_30_points_for_the_killer(language_mode, killer_match, motive, method, trick) ==
  LET score == (IF killer_match THEN 30 ELSE 0) + motive[1] + method[1] + trick[1]
  IN  [source |-> "rubric", score |-> score, score_numeric |-> TRUE,
       grade |-> _grade(score),
       matches |-> [killer |-> killer_match, motive |-> motive[2],
                    method |-> method[2], trick |-> trick[2]],
       feedback |-> RubricFeedback(language_mode, killer_match, motive[1], method[1],
                                   trick[1]),
       weaknesses_top3 |-> ScoringService_weaknesses(language_mode, killer_match,
                             motive[2], method[2], trick[2])]

\* the rubric's result from the killer match and the three <<points, match>>
Rubric(language_mode, killer_match, motive, method, trick) ==
  LET score == (IF killer_match THEN 40 ELSE 0) + motive[1] + method[1] + trick[1]
  IN  [source |-> "rubric", score |-> score, score_numeric |-> TRUE,
       grade |-> _grade(score),
       matches |-> [killer |-> killer_match, motive |-> motive[2],
                    method |-> method[2], trick |-> trick[2]],
       feedback |-> RubricFeedback(language_mode, killer_match, motive[1], method[1],
                                   trick[1]),
       weaknesses_top3 |-> ScoringService_weaknesses(language_mode, killer_match,
                             motive[2], method[2], trick[2])]

\* guess.killer names the killer or the killer's id
KillerMatch(killer, guess) ==
  _normalize(guess.killer) \in {_normalize(killer.name), _normalize(<<killer.id>>)}

ScoringService_evaluate(case_data, guess, language_mode, llm_result) ==
  IF Truthy(llm_result) /\ llm_result.type # "dict" THEN Raise("AttributeError")
  ELSE IF Truthy(llm_result) /\ _llm_payload_looks_valid(llm_result)
  THEN Ok([source |-> "llm", score |-> llm_result.score,
           score_numeric |-> llm_result.score_numeric, grade |-> llm_result.grade,
           matches |-> llm_result.matches, feedback |-> llm_result.feedback,
           weaknesses_top3 |-> llm_result.weaknesses_top3])
  ELSE Ok(Rubric(language_mode,
                 KillerMatch(CharacterById(case_data.characters, case_data.killer_id), guess),
                 _semantic_score(guess.motive, case_data.motive, 20),
                 _semantic_score(guess.method, case_data.method, 20),
                 _semantic_score(guess.trick, case_data.trick, 20)))

(***************************************************************************)
(* game_service.py: the public operations.  Each returns the response, the *)
(* game as committed (the game as loaded when the call raised before its   *)
(* commit), the returned payload and the client calls it made.             *)
(***************************************************************************)
NoCalls == [generate_case |-> 0, answer_question |-> 0, contradiction_check |-> 0,
            score_guess |-> 0, evaluate |-> 0]

NoResult == <<>>

\* an exception that is no AppError reaches unhandled_error_handler
Failed(response, game, calls) ==
  [response |-> response, game |-> game, result |-> NoResult, calls |-> calls]

ApplyRewrite_keeping_earlier_follow_ups(rewritten, follow_up_questions, heuristic) ==
  IF follow_up_questions = <<>>
  THEN IF heuristic.kind # "ok" THEN heuristic
       ELSE Ok(<<rewritten[1], heuristic.value>>)
  ELSE Ok(<<rewritten[1], follow_up_questions>>)

\* lines 150-158 of ask, on a contradiction with a fixed answer:
\* returns <<answer, follow_up_questions>> or an exception
ApplyRewrite(rewritten, follow_up_questions, heuristic) ==
  IF rewritten[2] # <<>> THEN Ok(<<rewritten[1], rewritten[2]>>)
  ELSE IF follow_up_questions = <<>>
  THEN IF heuristic.kind # "ok" THEN heuristic
       ELSE Ok(<<rewritten[1], heuristic.value>>)
  ELSE Ok(<<rewritten[1], follow_up_questions>>)

\* lines 140-158 of ask: returns <<answer, follow_up_questions>> or an exception
ApplyContradiction(contradiction, answer, follow_up_questions, case_obj, language_mode, history_count) ==
  IF /\ contradiction.type = "dict"
     /\ contradiction.contradiction
     /\ contradiction.fixed_answer # <<>>
  THEN ApplyRewrite(
         split_answer_and_follow_up_questions(contradiction.fixed_answer, language_mode, FALSE),
         follow_up_questions,
         heuristic_follow_up_questions(case_obj, language_mode, history_count))
  ELSE Ok(<<answer, follow_up_questions>>)

AnswerCalls == [NoCalls EXCEPT !.answer_question = 1]

CheckCalls == [AnswerCalls EXCEPT !.contradiction_check = 1]

remaining_after_ask_keeping_the_counter(game) == Max(1, game.remaining_questions)

\* game.remaining_questions = max(0, game.remaining_questions - 1)
remaining_after_ask(game) == Max(0, game.remaining_questions - 1)

status_after_ask_never_guessing(game, remaining) == game.status

status_after_ask_guessing_below_zero(game, remaining) ==
  IF remaining < 0 THEN "GUESSING" ELSE game.status

\* if game.remaining_questions == 0: game.status = GameStatus.GUESSING.value
status_after_ask(game, remaining) == IF remaining = 0 THEN "GUESSING" ELSE game.status

\* lines 167-193 of ask: the message, the counter, the status, the commit
ask_commit(game, question, answer, follow_up_questions, remaining, unlocked) ==
  [response |-> Success(200),
   game |-> [game EXCEPT
               !.remaining_questions = remaining,
               !.status = status_after_ask(game, remaining),
               !.unlocked_evidence_count = unlocked[1],
               !.messages = Append(@, [question |-> question,
                                       answer_text |-> append_follow_up_block(
                                                         answer, follow_up_questions,
                                                         game.language_mode),
                                       language_mode |-> game.language_mode])],
   result |-> [answer_text |-> answer,
               follow_up_questions |-> follow_up_questions,
               remaining_questions |-> remaining,
               status |-> status_after_ask(game, remaining),
               unlocked_evidence |-> unlocked[2]],
   calls |-> CheckCalls]

\* ask once the answer that names an actor is built (or building it raised)
ask_answered(game, question, case_obj, answer, follow_up_questions) ==
  IF answer.kind # "ok" THEN Failed(unhandled_error_handler, game, CheckCalls)
  ELSE ask_commit(game, question, answer.value, follow_up_questions,
                  remaining_after_ask(game), _unlock_next_evidence(game, case_obj))

ask_named_actor_keeping_answer(game, question, case_obj, applied) ==
  IF applied.kind # "ok" THEN Failed(unhandled_error_handler, game, CheckCalls)
  ELSE ask_answered(game, question, case_obj, Ok(applied.value[1]), applied.value[2])

\* lines 160-165 of ask: an answer naming no character is replaced
ask_named_actor(game, question, case_obj, applied) ==
  IF applied.kind # "ok" THEN Failed(unhandled_error_handler, game, CheckCalls)
  ELSE ask_answered(game, question, case_obj,
                    IF _answer_has_named_actor(applied.value[1], case_obj)
                    THEN Ok(applied.value[1])
                    ELSE _build_explicit_actor_answer(case_obj, question, game.language_mode),
                    applied.value[2])

\* lines 129-158 of ask: LLMError of the check is swallowed, anything else propagates
ask_checked(game, question, case_obj, history_count, answer, follow_up_questions, checked) ==
  IF checked.kind \notin {"ok", "LLMError"}
  THEN Failed(unhandled_error_handler, game, CheckCalls)
  ELSE ask_named_actor(
         game, question, case_obj,
         ApplyContradiction(IF checked.kind = "LLMError"
                            THEN ContradictionDict(FALSE, answer) ELSE checked.value,
                            answer, follow_up_questions, case_obj, game.language_mode,
                            history_count))

\* lines 125-137 of ask: the follow-up questions are settled, the check is called
ask_follow_ups(client, game, question, case_obj, history_count, answer, follow_up_questions, contradiction_request) ==
  IF follow_up_questions.kind # "ok" THEN Failed(unhandled_error_handler, game, AnswerCalls)
  ELSE ask_checked(game, question, case_obj, history_count, answer, follow_up_questions.value,
                   llm_contradiction_check(client, case_obj, question, answer,
                                           game.language_mode, contradiction_request))

\* lines 117-127 of ask: the raw answer is split; without questions the heuristic ones
ask_split(client, game, question, case_obj, history_count, split, contradiction_request) ==
  ask_follow_ups(client, game, question, case_obj, history_count, split[1],
                 IF split[2] = <<>>
                 THEN heuristic_follow_up_questions(case_obj, game.language_mode, history_count)
                 ELSE Ok(split[2]),
                 contradiction_request)

\* lines 104-115 of ask: LLMError of answer_question becomes gemini_error
ask_raw_answer(client, game, question, case_obj, history_count, raw_answer, contradiction_request) ==
  IF raw_answer.kind = "LLMError" THEN Failed(gemini_error, game, AnswerCalls)
  ELSE IF raw_answer.kind # "ok" THEN Failed(unhandled_error_handler, game, AnswerCalls)
  ELSE ask_split(client, game, question, case_obj, history_count,
                 split_answer_and_follow_up_questions(raw_answer.value, game.language_mode,
                                                      FALSE),
                 contradiction_request)

\* lines 99-112 of ask: the case and the history are loaded, the answer is requested
ask_loaded(client, game, question, case_of, history, answer_request, contradiction_request) ==
  IF case_of.kind = "CASE_MISSING" THEN Failed(case_missing, game, NoCalls)
  ELSE IF case_of.kind # "ok" THEN Failed(unhandled_error_handler, game, NoCalls)
  ELSE ask_raw_answer(client, game, question, case_of.value, Len(history),
                      llm_answer_question(client, case_of.value, question, history,
                                          game.language_mode, answer_request),
                      contradiction_request)

ask_in_any_status(client, game, question, answer_request, contradiction_request) ==
  ask_loaded(client, game, question, _case_of_game(game), _history_of_game(game),
             answer_request, contradiction_request)

ask(client, game, question, answer_request, contradiction_request) ==
  IF game.status # "PLAYING" THEN Failed(conflict(game.status), game, NoCalls)
  ELSE ask_loaded(client, game, question, _case_of_game(game), _history_of_game(game),
                  answer_request, contradiction_request)

\* int(scored["score"]): a number, or ValueError/TypeError
IntOf(scored) == IF scored.score_numeric THEN Ok(scored.score) ELSE Raise("ValueError")

ScoreCalls == [NoCalls EXCEPT !.score_guess = 1]

EvaluateCalls == [ScoreCalls EXCEPT !.evaluate = 1]

\* lines 280-298 of submit_guess: the game's guess row, a new one when
\* game.guess is None, with every column assigned
GuessRow(game, guess, scored, score) ==
  [killer |-> guess.killer, motive |-> guess.motive,
   method |-> guess.method, trick |-> guess.trick,
   reasoning |-> guess.reasoning,
   score |-> score, grade |-> scored.grade,
   feedback |-> [text |-> scored.feedback, matches |-> scored.matches],
   weaknesses_top3 |-> scored.weaknesses_top3]

submit_guess_commit_keeping_status(game, guess, scored, score) ==
  IF score.kind # "ok" THEN Failed(unhandled_error_handler, game, EvaluateCalls)
  ELSE [response |-> Success(200),
        game |-> [game EXCEPT !.guess = <<GuessRow(game, guess, scored, score.value)>>],
        result |-> [score |-> score.value, grade |-> scored.grade,
                    matches |-> scored.matches,
                    feedback |-> scored.feedback,
                    weaknesses_top3 |-> scored.weaknesses_top3,
                    source |-> scored.source],
        calls |-> EvaluateCalls]

\* lines 280-312 of submit_guess: the guess row, the status, the commit
submit_guess_commit(game, guess, scored, score) ==
  IF score.kind # "ok" THEN Failed(unhandled_error_handler, game, EvaluateCalls)
  ELSE [response |-> Success(200),
        game |-> [game EXCEPT
                    !.guess = <<GuessRow(game, guess, scored, score.value)>>,
                    !.status = "RESULT"],
        result |-> [score |-> score.value, grade |-> scored.grade,
                    matches |-> scored.matches,
                    feedback |-> scored.feedback,
                    weaknesses_top3 |-> scored.weaknesses_top3,
                    source |-> scored.source],
        calls |-> EvaluateCalls]

\* submit_guess once ScoringService.evaluate returned (or raised)
submit_guess_scored(game, guess, scored) ==
  IF scored.kind # "ok" THEN Failed(unhandled_error_handler, game, EvaluateCalls)
  ELSE submit_guess_commit(game, guess, scored.value, IntOf(scored.value))

\* lines 263-278 of submit_guess: LLMError of score_guess leaves llm_result None
submit_guess_called(game, guess, case_obj, called) ==
  IF called.kind \notin {"ok", "LLMError"}
  THEN Failed(unhandled_error_handler, game, ScoreCalls)
  ELSE submit_guess_scored(
         game, guess,
         ScoringService_evaluate(case_obj, guess, game.language_mode,
                                 IF called.kind = "LLMError" THEN JsonNull ELSE called.value))

\* lines 259-270 of submit_guess: the case is loaded, score_guess is called
submit_guess_loaded(client, game, guess, case_of, score_request) ==
  IF case_of.kind = "CASE_MISSING" THEN Failed(case_missing, game, NoCalls)
  ELSE IF case_of.kind # "ok" THEN Failed(unhandled_error_handler, game, NoCalls)
  ELSE submit_guess_called(game, guess, case_of.value,
                           llm_score_guess(client, case_of.value, guess, game.language_mode,
                                           score_request))

submit_guess_in_any_status(client, game, guess, score_request) ==
  submit_guess_loaded(client, game, guess, _case_of_game(game), score_request)

submit_guess(client, game, guess, score_request) ==
  IF game.status # "GUESSING" THEN Failed(conflict(game.status), game, NoCalls)
  ELSE submit_guess_loaded(client, game, guess, _case_of_game(game), score_request)

patch_language_in_any_status(game, language_mode) ==
  [response |-> Success(200),
   game |-> [game EXCEPT !.language_mode = language_mode],
   result |-> [language_mode |-> language_mode],
   calls |-> NoCalls]

patch_language_relabelling_messages(game, language_mode) ==
  IF game.status = "ENDED" THEN Failed(conflict(game.status), game, NoCalls)
  ELSE [response |-> Success(200),
        game |-> [game EXCEPT
                    !.language_mode = language_mode,
                    !.messages = [k \in 1..Len(@) |->
                                    [@[k] EXCEPT !.language_mode = language_mode]]],
        result |-> [language_mode |-> language_mode],
        calls |-> NoCalls]

patch_language_writing_before_the_check(game, language_mode) ==
  IF game.status = "ENDED"
  THEN Failed(conflict(game.status), [game EXCEPT !.language_mode = language_mode], NoCalls)
  ELSE [response |-> Success(200),
        game |-> [game EXCEPT !.language_mode = language_mode],
        result |-> [language_mode |-> language_mode],
        calls |-> NoCalls]

patch_language(game, language_mode) ==
  IF game.status = "ENDED" THEN Failed(conflict(game.status), game, NoCalls)
  ELSE [response |-> Success(200),
        game |-> [game EXCEPT !.language_mode = language_mode],
        result |-> [language_mode |-> language_mode],
        calls |-> NoCalls]

move_to_guessing_in_any_status(game) ==
  [response |-> Success(204),
   game |-> [game EXCEPT !.status = "GUESSING"],
   result |-> NoResult,
   calls |-> NoCalls]

move_to_guessing_closing_the_counter(game) ==
  IF game.status # "PLAYING" THEN Failed(conflict(game.status), game, NoCalls)
  ELSE [response |-> Success(204),
        game |-> [game EXCEPT !.status = "GUESSING", !.remaining_questions = 0],
        result |-> NoResult,
        calls |-> NoCalls]

move_to_guessing_reopening_a_result(game) ==
  IF game.status \notin {"PLAYING", "RESULT"} THEN Failed(conflict(game.status), game, NoCalls)
  ELSE [response |-> Success(204),
        game |-> [game EXCEPT !.status = "GUESSING"],
        result |-> NoResult,
        calls |-> NoCalls]

move_to_guessing(game) ==
  IF game.status # "PLAYING" THEN Failed(conflict(game.status), game, NoCalls)
  ELSE [response |-> Success(204),
        game |-> [game EXCEPT !.status = "GUESSING"],
        result |-> NoResult,
        calls |-> NoCalls]

end_game_clearing_the_messages(game) ==
  [response |-> Success(204),
   game |-> [game EXCEPT !.status = "ENDED", !.messages = <<>>],
   result |-> NoResult,
   calls |-> NoCalls]

end_game(game) ==
  [response |-> Success(204),
   game |-> [game EXCEPT !.status = "ENDED"],
   result |-> NoResult,
   calls |-> NoCalls]

\* _generate_story_background: the URL is set only when an image with data was stored
_generate_story_background(generated) == generated = "image"

NewGame_with_declared_default_status(s, language_mode, case_obj) ==
  [status |-> "INIT",
   remaining_questions |-> s.max_questions,
   language_mode |-> language_mode,
   unlocked_evidence_count |-> 0,
   case |-> <<case_obj>>,
   messages |-> <<>>,
   guess |-> <<>>]

\* lines 57-70 of create_game
NewGame(s, language_mode, case_obj) ==
  [status |-> "PLAYING",
   remaining_questions |-> s.max_questions,
   language_mode |-> language_mode,
   unlocked_evidence_count |-> 0,
   case |-> <<case_obj>>,
   messages |-> <<>>,
   guess |-> <<>>]

\* lines 57-89 of create_game: the rows are added and the response is built
create_game_commit(game, generated, calls) ==
  [response |-> Success(201),
   added |-> <<game>>,
   result |-> [initial_state |-> game.status,
               remaining_questions |-> game.remaining_questions,
               language_mode |-> game.language_mode,
               background_image_url |-> _generate_story_background(generated)],
   calls |-> calls]

\* create_game once _generate_validated_case returned (or raised)
create_game_validated(s, language_mode, validated, generated) ==
  IF validated.result.kind = "gemini_error"
  THEN [response |-> gemini_error, added |-> <<>>, result |-> NoResult,
        calls |-> [NoCalls EXCEPT !.generate_case = validated.calls]]
  ELSE IF validated.result.kind # "ok"
  THEN [response |-> unhandled_error_handler, added |-> <<>>, result |-> NoResult,
        calls |-> [NoCalls EXCEPT !.generate_case = validated.calls]]
  ELSE create_game_commit(NewGame(s, language_mode, validated.result.value), generated,
                          [NoCalls EXCEPT !.generate_case = validated.calls])

\* returns the response, the rows to add (none on failure), the payload and the calls
create_game(s, language_mode, requests, draws, generated) ==
  create_game_validated(
    s, language_mode,
    _generate_validated_case(
      [k \in 1..2 |-> llm_generate_case(build_llm_client(s), language_mode, requests[k],
                                        draws[k])]),
    generated)

(***************************************************************************)
(* Inputs of the operations: the configurations, the random draws of the   *)
(* local case factory, the remote model's responses, the player's          *)
(* questions and guesses.                                                  *)
(***************************************************************************)
GameIds == {"g1"}

SettingsChoices ==
  {c \in [max_questions : 0..MaxQuestionsBound,
          llm_provider : {"fake", "gemini"},
          gemini_fallback_to_fake : BOOLEAN] :
     c.llm_provider = "fake" => ~c.gemini_fallback_to_fake}

SampleDraws ==
  { [people |-> <<6, 4, 2, 1, 3>>, killer_index |-> 3, liar_index |-> 0, alibis |-> <<3, 3, 1, 2, 4>>] }

\* the number of questions of a game long enough to ask past the last evidence item
LongGameQuestions == 7

\* MAX_QUESTIONS above the six evidence items of a local case, LLM_PROVIDER=fake
LongGameSettings ==
  { [max_questions |-> LongGameQuestions, llm_provider |-> "fake",
     gemini_fallback_to_fake |-> FALSE] }

\* a case as the remote model may return it
RemoteCase(names, killer, liar, killer_id, liar_id, n_evidence, n_timeline) ==
  [type |-> "dict",
   fields_ok |-> TRUE,
   characters |-> [i \in 1..Len(names) |->
                     [id |-> <<"a", "b", "c", "d", "e", "f", "g">>[i],
                      name |-> <<names[i]>>,
                      alibi |-> <<"was in", " ", "room", " ", <<"1", "2", "3", "4", "5", "6", "7">>[i]>>,
                      is_liar |-> (i = liar),
                      is_killer |-> (i = killer)]],
   victim_name |-> <<"Vic">>,
   killer_id |-> killer_id,
   liar_id |-> liar_id,
   motive |-> <<"old", " ", "debt">>,
   method |-> <<"poisoned", " ", "tea">>,
   trick |-> <<"swapped", " ", "the", " ", "keys">>,
   timeline |-> [i \in 1..n_timeline |-> [time |-> <<"1", "0", ":", "0", "5">>, event |-> <<"lights went out">>]],
   evidence |-> [i \in 1..n_evidence |-> [id |-> <<"e1", "e2", "e3", "e4", "e5", "e6">>[i],
                                          name |-> <<"item", " ", <<"1", "2", "3", "4", "5", "6">>[i]>>]]]

JsonList == [type |-> "list", empty |-> FALSE]

Json(value) == Ok(JsonText(TRUE, TRUE, TRUE, value))

\* prose around braces that do not parse
BrokenJson == Ok(JsonText(FALSE, TRUE, FALSE, JsonNull))

\* prose without braces
NoJson == Ok(JsonText(FALSE, FALSE, FALSE, JsonNull))

CaseRequests ==
  { Raise("LLMError"),
    BrokenJson,
    Json(JsonList),
    Json(RemoteCase(<<"Ann", "Bob", "Cy", "Dee">>, 1, 2, "a", "b", 5, 1)),
    Json(RemoteCase(<<"Ann", "Bob", "Cy", "Dee">>, 2, 3, "b", "c", 5, 0)),
    Json(RemoteCase(<<"Ann", "Bob", "Cy", "Dee">>, 1, 1, "a", "a", 5, 1)),
    Json(RemoteCase(<<"Ann", "Bob", "Cy">>, 1, 2, "a", "b", 5, 1)) }

AnswerRequests ==
  { Raise("LLMError"),
    Ok(<<"the window was open">>),
    Ok(<<"Ann", " ", "left early", "\n", FOLLOW_UP_OPEN_TAG, "\n",
         "Q", "1", ":", " ", "who saw her?", "\n", FOLLOW_UP_CLOSE_TAG>>) }

ContradictionRequests ==
  { Raise("LLMError"),
    BrokenJson,
    Json(JsonList),
    Json(ContradictionDict(FALSE, <<"unused">>)),
    Json(ContradictionDict(TRUE, <<"nobody knows", "\n", FOLLOW_UP_OPEN_TAG, "\n",
                                   "-", " ", "who knows?", "\n", FOLLOW_UP_CLOSE_TAG>>)) }

\* a scoring payload as the remote model may return it
ScorePayload(has_required, matches_is_dict, score_numeric, score, grade) ==
  [type |-> "dict", empty |-> FALSE, has_required |-> has_required,
   matches_is_dict |-> matches_is_dict, score_numeric |-> score_numeric, score |-> score,
   grade |-> grade,
   matches |-> [killer |-> TRUE, motive |-> FALSE, method |-> TRUE, trick |-> FALSE],
   feedback |-> <<"remote", " ", "feedback">>,
   weaknesses_top3 |-> << <<"remote", "w1">>, <<"remote", "w2">>, <<"remote", "w3">> >>]

ScoreRequests ==
  { Raise("LLMError"),
    BrokenJson,
    NoJson,
    Json(JsonNull),
    Json(JsonList),
    Json(ScorePayload(TRUE, TRUE, TRUE, 80, "A")),
    Json(ScorePayload(FALSE, TRUE, TRUE, 80, "A")),
    Json(ScorePayload(TRUE, TRUE, FALSE, 0, "A")) }

Questions == { <<"when">> }

\* the guesses tried against a case: the truth itself, and a wrong guess
GuessesFor(case_obj) ==
  { [killer |-> CharacterById(case_obj.characters, case_obj.killer_id).name,
     motive |-> case_obj.motive, method |-> case_obj.method, trick |-> case_obj.trick,
     reasoning |-> <<"blackout">>],
    [killer |-> <<"nobody">>, motive |-> <<" ">>, method |-> case_obj.method,
     trick |-> <<"magic">>, reasoning |-> TimeLiteral1012] }

GeneratedBackgrounds == {"none", "image", "LLMError"}

(***************************************************************************)
(* The state machine: one action per public operation of GameService.      *)
(***************************************************************************)
Record(op, game_id, outcome) ==
  [op |-> op, game_id |-> game_id, response |-> outcome.response,
   result |-> outcome.result, calls |-> outcome.calls]

NotFoundOutcome == [response |-> not_found, result |-> NoResult, calls |-> NoCalls]

\* no request to Gemini is in progress
NoRequest == [pc |-> "none", attempts |-> <<>>, slept |-> <<>>, result |-> Raise("none")]

\* no function is being called
NoCall == [fn |-> "none", stage |-> "none"]

\* no request has a database session open
NoSessions == [lock |-> TRUE, loaded |-> <<>>]

\* no text is in the codec
NoCodec == [stage |-> "none"]

Init ==
  /\ settings \in SettingsChoices
  /\ games = <<>>
  /\ last = Record("none", "-", [response |-> Success(200), result |-> NoResult, calls |-> NoCalls])
  /\ gemini_request = NoRequest
  /\ codec = NoCodec
  /\ call = NoCall
  /\ sessions = NoSessions

\* every operation on an id that db.get does not find raises not_found
\* (_get_game_or_404)
Apply(op, game_id, outcome) ==
  /\ games' = [games EXCEPT ![game_id] = outcome.game]
  /\ last' = Record(op, game_id, outcome)
  /\ UNCHANGED <<settings, gemini_request, codec, call, sessions>>

Missing(op, game_id) ==
  /\ game_id \notin DOMAIN games
  /\ last' = Record(op, game_id, NotFoundOutcome)
  /\ UNCHANGED <<settings, games, gemini_request, codec, call, sessions>>

\* the remote responses to draw from: the fake client sends no request
Remote(responses) ==
  IF build_llm_client(settings) = "fake" THEN {Raise("LLMError")} ELSE responses

\* the responses to a request the handler sends only when `sent`
Requested(sent, responses) == IF sent THEN Remote(responses) ELSE {Raise("LLMError")}

\* the random draws to draw from: the Gemini client alone draws nothing
Draws == IF build_llm_client(settings) = "gemini"
         THEN {CHOOSE d \in SampleDraws : TRUE} ELSE SampleDraws

\* whether _generate_validated_case makes its second attempt
SecondAttempt(language_mode, request, draw) ==
  _generate_validated_case(
    [k \in 1..2 |-> llm_generate_case(build_llm_client(settings), language_mode, request, draw)]
  ).calls = 2

CreateGame ==
  /\ GameIds \ DOMAIN games # {}
  /\ \E language_mode \in LanguageMode, r1 \in Remote(CaseRequests), d1 \in Draws,
       generated \in GeneratedBackgrounds :
      \E r2 \in IF SecondAttempt(language_mode, r1, d1) THEN Remote(CaseRequests) ELSE {r1},
         d2 \in IF SecondAttempt(language_mode, r1, d1) THEN Draws ELSE {d1} :
        LET outcome == create_game(settings, language_mode, <<r1, r2>>, <<d1, d2>>, generated)
        IN  \E game_id \in GameIds :
              /\ outcome.added # <<>> => game_id \notin DOMAIN games
              /\ games' = IF outcome.added = <<>> THEN games
                          ELSE (game_id :> outcome.added[1]) @@ games
              /\ last' = Record("create_game", IF outcome.added = <<>> THEN "-" ELSE game_id, outcome)
              /\ UNCHANGED <<settings, gemini_request, codec, call, sessions>>

Ask ==
  \E game_id \in GameIds :
    \/ Missing("ask", game_id)
    \/ /\ game_id \in DOMAIN games
       /\ \E question \in Questions,
             a \in Requested(games[game_id].status = "PLAYING", AnswerRequests),
             c \in Requested(games[game_id].status = "PLAYING", ContradictionRequests) :
            Apply("ask", game_id,
                  ask(build_llm_client(settings), games[game_id], question, a, c))

SubmitGuess ==
  \E game_id \in GameIds :
    \/ Missing("submit_guess", game_id)
    \/ /\ game_id \in DOMAIN games
       /\ \E guess \in GuessesFor(games[game_id].case[1]),
             r \in Requested(games[game_id].status = "GUESSING", ScoreRequests) :
            Apply("submit_guess", game_id,
                  submit_guess(build_llm_client(settings), games[game_id], guess, r))

PatchLanguage ==
  \E game_id \in GameIds :
    \/ Missing("patch_language", game_id)
    \/ /\ game_id \in DOMAIN games
       /\ \E language_mode \in LanguageMode :
            Apply("patch_language", game_id, patch_language(games[game_id], language_mode))

MoveToGuessing ==
  \E game_id \in GameIds :
    \/ Missing("move_to_guessing", game_id)
    \/ /\ game_id \in DOMAIN games
       /\ Apply("move_to_guessing", game_id, move_to_guessing(games[game_id]))

EndGame ==
  \E game_id \in GameIds :
    \/ Missing("end_game", game_id)
    \/ /\ game_id \in DOMAIN games
       /\ Apply("end_game", game_id, end_game(games[game_id]))

Next ==
  \/ CreateGame
  \/ Ask
  \/ SubmitGuess
  \/ PatchLanguage
  \/ MoveToGuessing
  \/ EndGame

Spec == Init /\ [][Next]_vars

\* the service configured for a long game
InitLongGame ==
  /\ settings \in LongGameSettings
  /\ games = <<>>
  /\ last = Record("none", "-", [response |-> Success(200), result |-> NoResult, calls |-> NoCalls])
  /\ gemini_request = NoRequest
  /\ codec = NoCodec
  /\ call = NoCall
  /\ sessions = NoSessions

SpecLongGame == InitLongGame /\ [][Next]_vars

(***************************************************************************)
(* One call of GeminiLLMClient._request_with_retry, an attempt per step.   *)
(***************************************************************************)
\* the retry configuration: GEMINI_MAX_ATTEMPTS, GEMINI_RETRY_DELAY_SEC and
\* GEMINI_RETRY_MAX_DELAY_SEC, the delays in tenths of a second
RetrySettings ==
  [max_questions : {1},
   llm_provider : {"gemini"},
   gemini_fallback_to_fake : {FALSE},
   gemini_max_attempts : 0..MaxAttemptsBound,
   gemini_retry_delay_sec : {0, 2},
   gemini_retry_max_delay_sec : {1, 5}]

\* what one call of _request may do
RequestOutcomes ==
  { ResponseText(<<"text">>),
    APIError(400), APIError(429), APIError(503), APIErrorWithoutCode,
    RequestLLMError("_extract_response_text"), RequestLLMError("_get_client"),
    UnexpectedException }

\* random.uniform(0, base): its two ends
Jitters(s) == {0, BaseDelay(s)}

InitRetry ==
  /\ settings \in RetrySettings
  /\ games = <<>>
  /\ last = Record("none", "-", [response |-> Success(200), result |-> NoResult, calls |-> NoCalls])
  /\ gemini_request = [NoRequest EXCEPT !.pc = "attempt"]
  /\ codec = NoCodec
  /\ call = NoCall
  /\ sessions = NoSessions

\* the loop of _request_with_retry runs once more, or ends
RequestAttempt ==
  /\ gemini_request.pc = "attempt"
  /\ \E outcome \in RequestOutcomes, jitter \in Jitters(settings) :
       gemini_request' = _request_with_retry(settings, gemini_request, outcome, jitter)
  /\ UNCHANGED <<settings, games, last, codec, call, sessions>>

NextRetry == RequestAttempt

SpecRetry == InitRetry /\ [][NextRetry]_vars

(***************************************************************************)
(* One text taken through the follow-up codec: append_follow_up_block      *)
(* (encode) and split_answer_and_follow_up_questions (decode).             *)
(***************************************************************************)
\* the tokens of a body; the word is also a question, so that a block can
\* hold the same line twice
BodyTokens == {"who?", " ", FOLLOW_UP_OPEN_TAG, FOLLOW_UP_CLOSE_TAG}

\* all token sequences of length n over `tokens`
SeqsOfLen(tokens, n) == [1..n -> tokens]

\* the bodies: answer_text of append_follow_up_block, raw_answer_text of
\* split_answer_and_follow_up_questions
CodecBodies == UNION {SeqsOfLen(BodyTokens, n) : n \in 0..MaxBodyLen}

\* the questions: plain ones, one with leading white space, one numbered,
\* one bulleted, one of two lines (the second bulleted), one that holds the
\* close tag
CodecQuestionTexts ==
  { <<"who?">>, <<"why?">>,
    <<" ", "who?">>,
    <<"1", ".", " ", "why?">>,
    <<"-", " ", "how?">>,
    <<"who?", "\n", "-", " ", "how?">>,
    <<"how?", FOLLOW_UP_CLOSE_TAG>> }

\* the lists of 0 to 3 non-empty distinct questions
CodecQuestionLists ==
  {<<>>}
  \cup {<<a>> : a \in CodecQuestionTexts}
  \cup {qs \in {<<a, b>> : a \in CodecQuestionTexts, b \in CodecQuestionTexts} :
          qs[1] # qs[2]}
  \cup {qs \in {<<a, b, c>> : a \in CodecQuestionTexts, b \in CodecQuestionTexts,
                               c \in CodecQuestionTexts} :
          qs[1] # qs[2] /\ qs[1] # qs[3] /\ qs[2] # qs[3]}

InitCodec ==
  /\ settings \in LongGameSettings
  /\ games = <<>>
  /\ last = Record("none", "-", [response |-> Success(200), result |-> NoResult, calls |-> NoCalls])
  /\ gemini_request = NoRequest
  /\ call = NoCall
  /\ sessions = NoSessions
  /\ \E body \in CodecBodies, questions \in CodecQuestionLists, language_mode \in LanguageMode :
       codec = [stage |-> "input", body |-> body, questions |-> questions,
                language_mode |-> language_mode, encoded |-> FALSE, text |-> body,
                decoded |-> <<>>]

\* append_follow_up_block(body, questions, language_mode=...)
Encode ==
  /\ codec.stage = "input"
  /\ codec' = [codec EXCEPT
                 !.stage = "encoded",
                 !.encoded = TRUE,
                 !.text = append_follow_up_block(codec.body, codec.questions,
                                                 codec.language_mode)]
  /\ UNCHANGED <<settings, games, last, gemini_request, call, sessions>>

\* split_answer_and_follow_up_questions(text, language_mode=..., with_default=...)
\* of the text at hand; the body it returns is the text at hand afterwards
Decode ==
  /\ codec.stage \in {"input", "encoded", "decoded"}
  /\ Len(codec.decoded) < MaxDecodes
  /\ \E with_default \in BOOLEAN :
       LET result == split_answer_and_follow_up_questions(codec.text, codec.language_mode,
                                                          with_default)
       IN  codec' = [codec EXCEPT
                       !.stage = "decoded",
                       !.text = result[1],
                       !.decoded = Append(@, [with_default |-> with_default,
                                              body |-> result[1],
                                              questions |-> result[2]])]
  /\ UNCHANGED <<settings, games, last, gemini_request, call, sessions>>

NextCodec ==
  \/ Encode
  \/ Decode

SpecCodec == InitCodec /\ [][NextCodec]_vars

(***************************************************************************)
(* One call of a function that reads no state of the service: the          *)
(* arguments are drawn at the start, the step of the function returns.     *)
(***************************************************************************)
\* a call of fn with these arguments, not made yet
Pending(fn, args) == [fn |-> fn, stage |-> "input", args |-> args, result |-> Raise("none")]

\* the call returns (or raises) outcome
Return(fn, outcome) ==
  /\ call.fn = fn
  /\ call.stage = "input"
  /\ call' = [call EXCEPT !.stage = "returned", !.result = outcome]
  /\ UNCHANGED <<settings, games, last, gemini_request, codec, sessions>>

\* the cases scored: the local case in each language, a remote case, and a
\* remote case whose motive is blank
ScoringCases ==
  {build_local_case(language_mode, draw) : language_mode \in LanguageMode, draw \in SampleDraws}
  \cup { RemoteCase(<<"Ann", "Bob", "Cy", "Dee">>, 1, 2, "a", "b", 5, 1),
         [RemoteCase(<<"Ann", "Bob", "Cy", "Dee">>, 1, 2, "a", "b", 5, 1)
            EXCEPT !.motive = <<" ">>] }

\* the guesses scored against a case: the killer by name, by id, or wrong;
\* each text the truth, a part of it, something else, blank or empty
ScoredGuesses(case_data) ==
  [killer : {CharacterById(case_data.characters, case_data.killer_id).name,
             <<CharacterById(case_data.characters, case_data.killer_id).id>>,
             <<"nobody">>},
   motive : {case_data.motive, SubSeq(case_data.motive, 1, 1), <<"magic">>, <<" ">>, <<>>},
   method : {case_data.method, <<"magic">>, <<>>},
   trick : {case_data.trick, <<" ">>, <<"magic">>},
   reasoning : {<<"blackout">>}]

\* the llm_result argument: None, the empty object, payloads that pass the
\* shape check (one of them with a "matches" object of a single key), and
\* payloads that fail it
LlmResults ==
  { JsonNull,
    [ScorePayload(FALSE, FALSE, FALSE, 0, "C") EXCEPT !.empty = TRUE],
    ScorePayload(TRUE, TRUE, TRUE, 80, "A"),
    ScorePayload(TRUE, TRUE, TRUE, 150, "Z"),
    [ScorePayload(TRUE, TRUE, TRUE, 80, "A") EXCEPT !.matches = [killer |-> TRUE]],
    ScorePayload(FALSE, TRUE, TRUE, 80, "A"),
    ScorePayload(TRUE, FALSE, TRUE, 150, "Z") }

EvaluateInputs ==
  UNION {[case_data : {case_data}, guess : ScoredGuesses(case_data),
          language_mode : LanguageMode, llm_result : LlmResults] :
           case_data \in ScoringCases}

\* ScoringService.evaluate(case_data=..., guess=..., language_mode=..., llm_result=...)
Evaluate ==
  Return("evaluate",
         ScoringService_evaluate(call.args.case_data, call.args.guess,
                                 call.args.language_mode, call.args.llm_result))

\* seven names, for payloads of three to seven characters
PayloadNames == <<"Ann", "Bob", "Cy", "Dee", "Eve", "Fay", "Gus">>

\* the payload with the killer flag also on the character at `also_killer`
\* (0: on no other) and, when `duplicate`, the second character carrying
\* the id of the first
Flagged(payload, also_killer, duplicate) ==
  [payload EXCEPT
     !.characters = [i \in 1..Len(payload.characters) |->
                       [payload.characters[i] EXCEPT
                          !.is_killer = @ \/ i = also_killer,
                          !.id = IF duplicate /\ i = 2 THEN payload.characters[1].id ELSE @]]]

\* the payloads validated: three to seven characters, four or five evidence
\* items, the flags on any one character or on none, the ids naming a
\* character or nobody, a second killer flag, a repeated id, and payloads
\* whose fields do not have the declared types
ValidateInputs ==
  {Flagged(RemoteCase(SubSeq(PayloadNames, 1, n), killer, liar, killer_id, liar_id,
                      n_evidence, 1),
           also_killer, duplicate) :
     n \in 3..7, killer \in 0..3, liar \in 0..3, killer_id \in {"a", "b", "z"},
     liar_id \in {"a", "b", "c"}, n_evidence \in {4, 5}, also_killer \in {0, 3},
     duplicate \in BOOLEAN}
  \cup {JsonList,
        [RemoteCase(SubSeq(PayloadNames, 1, 4), 1, 2, "a", "b", 5, 1)
           EXCEPT !.fields_ok = FALSE]}

\* CaseFile.model_validate(payload)
Validate == Return("model_validate", CaseFile_model_validate(call.args))

\* random.sample(people_pool, k=5): five different places of the six names;
\* of the orders of every five, the rising and the falling one
SampledPeople ==
  {people \in [1..5 -> 1..6] :
     \/ \A i \in 1..4 : people[i] < people[i + 1]
     \/ \A i \in 1..4 : people[i] > people[i + 1]}

\* the draws of build_local_case: the five people, range(5) for the killer,
\* another index for the liar; of the alibi draws, which no check reads, two
LocalDraws ==
  {draw \in [people : SampledPeople, killer_index : 0..4, liar_index : 0..4,
             alibis : {<<3, 3, 1, 2, 4>>, <<1, 1, 1, 1, 1>>}] :
     draw.liar_index # draw.killer_index}

BuildLocalCaseInputs == [language_mode : LanguageMode, draw : LocalDraws]

\* build_local_case(language_mode), the random draws being `draw`
BuildLocalCase ==
  Return("build_local_case", Ok(build_local_case(call.args.language_mode, call.args.draw)))

\* the cases answered for: the local case in each language, and a remote
\* case with one timeline event or with none
AnsweredCases ==
  {build_local_case(language_mode, draw) : language_mode \in LanguageMode, draw \in SampleDraws}
  \cup { RemoteCase(<<"Ann", "Bob", "Cy", "Dee">>, 1, 2, "a", "b", 5, 1),
         RemoteCase(<<"Ann", "Bob", "Cy", "Dee">>, 2, 3, "b", "c", 5, 0) }

\* the questions answered: with a location or time cue, an evidence cue,
\* both or none, in English and in Japanese
ExplicitQuestions ==
  { <<"where", " ", "is", " ", "the", " ", "evidence">>,
    <<"Where", " ", "was", " ", "Bob">>,
    <<"what", " ", "happened", " ", "at the time">>,
    <<"any", " ", "clue">>,
    <<"who", " ", "did", " ", "it">>,
    <<"ja:doko", "ja:shouko">>,
    <<"ja:shouko", "ja:itsu">>,
    <<"ja:tegakari(kana)">>,
    <<"ja:dare">> }

BuildExplicitActorAnswerInputs ==
  [case_obj : AnsweredCases, question : ExplicitQuestions, language_mode : LanguageMode]

\* GameService._build_explicit_actor_answer(case_obj=..., question=..., language_mode=...)
BuildExplicitActorAnswer ==
  Return("_build_explicit_actor_answer",
         _build_explicit_actor_answer(call.args.case_obj, call.args.question,
                                      call.args.language_mode))

FunctionCalls ==
  {Pending("evaluate", args) : args \in EvaluateInputs}
  \cup {Pending("_build_explicit_actor_answer", args) : args \in BuildExplicitActorAnswerInputs}
  \cup {Pending("build_local_case", args) : args \in BuildLocalCaseInputs}
  \cup {Pending("model_validate", args) : args \in ValidateInputs}

InitFunctions ==
  /\ settings \in LongGameSettings
  /\ games = <<>>
  /\ last = Record("none", "-", [response |-> Success(200), result |-> NoResult, calls |-> NoCalls])
  /\ gemini_request = NoRequest
  /\ codec = NoCodec
  /\ call \in FunctionCalls
  /\ sessions = NoSessions

NextFunctions ==
  \/ Evaluate
  \/ Validate
  \/ BuildLocalCase
  \/ BuildExplicitActorAnswer

SpecFunctions == InitFunctions /\ [][NextFunctions]_vars

(***************************************************************************)
(* Requests on one game handled at the same time.  main.py gives every     *)
(* request a database session of its own (get_db) and runs the handlers    *)
(* on worker threads; no handler locks the game row.  A request of ask     *)
(* loads the game and its messages (_get_game_or_404, _history_of_game),   *)
(* then calls the generator, then commits: the commit writes the columns   *)
(* that the handler changed and inserts the new message.  sessions.lock    *)
(* says that the caller serializes the requests on a game.                 *)
(***************************************************************************)
Requests == 1..MaxSessions

\* MAX_QUESTIONS of 1 and more, LLM_PROVIDER=fake
ConcurrentSettings ==
  { [max_questions |-> n, llm_provider |-> "fake", gemini_fallback_to_fake |-> FALSE] :
      n \in 1..MaxQuestionsBound }

\* the game g1 has just been created; the caller serializes requests or not
InitConcurrent ==
  /\ settings \in ConcurrentSettings
  /\ games \in {("g1" :> NewGame(settings, language_mode,
                                 build_local_case(language_mode, draw))) :
                   language_mode \in LanguageMode, draw \in SampleDraws}
  /\ last = Record("none", "-", [response |-> Success(200), result |-> NoResult, calls |-> NoCalls])
  /\ gemini_request = NoRequest
  /\ codec = NoCodec
  /\ call = NoCall
  /\ sessions \in [lock : BOOLEAN, loaded : {[r \in Requests |-> <<>>]}]

\* game = self._get_game_or_404(game_id): the session of request r reads the rows
AskLoad(r) ==
  /\ sessions.loaded[r] = <<>>
  /\ sessions.lock => \A other \in Requests : sessions.loaded[other] = <<>>
  /\ sessions' = [sessions EXCEPT !.loaded[r] = <<games["g1"]>>]
  /\ UNCHANGED <<settings, games, last, gemini_request, codec, call>>

\* db.add(message); db.commit(): the UPDATE sets the columns whose value
\* the handler changed, the INSERT adds the message to those stored by now
Flushed(row, loaded, written) ==
  [row EXCEPT
     !.remaining_questions = IF written.remaining_questions # loaded.remaining_questions
                             THEN written.remaining_questions ELSE @,
     !.status = IF written.status # loaded.status THEN written.status ELSE @,
     !.unlocked_evidence_count = IF written.unlocked_evidence_count
                                      # loaded.unlocked_evidence_count
                                 THEN written.unlocked_evidence_count ELSE @,
     !.messages = @ \o SubSeq(written.messages, Len(loaded.messages) + 1,
                              Len(written.messages))]

\* the rest of ask for request r, run on the rows its session loaded
AskCommit(r) ==
  /\ sessions.loaded[r] # <<>>
  /\ \E question \in Questions :
       LET loaded == sessions.loaded[r][1]
           outcome == ask(build_llm_client(settings), loaded, question,
                          Raise("LLMError"), Raise("LLMError"))
       IN  /\ games' = [games EXCEPT !["g1"] = Flushed(@, loaded, outcome.game)]
           /\ last' = Record("ask", "g1", outcome)
  /\ sessions' = [sessions EXCEPT !.loaded[r] = <<>>]
  /\ UNCHANGED <<settings, gemini_request, codec, call>>

NextConcurrent == \E r \in Requests : AskLoad(r) \/ AskCommit(r)

SpecConcurrent == InitConcurrent /\ [][NextConcurrent]_vars

(***************************************************************************)
(* Properties of the service.  A step is a call of `op` on the stored game *)
(* g when the state after it records that call.                            *)
(***************************************************************************)
Called(op, g) == g \in DOMAIN games /\ last'.op = op /\ last'.game_id = g

InvalidState(response, status) ==
  /\ response.status_code = 409
  /\ response.error_code = "INVALID_STATE"
  /\ ~response.retryable
  /\ response.detail_status = status

UpstreamUnavailable(response) ==
  /\ response.status_code = 502
  /\ response.error_code = "GEMINI_UNAVAILABLE"
  /\ response.retryable

\* C1: ask on a game whose status is not PLAYING fails with 409 INVALID_STATE,
\* not retryable, the offending status attached; it calls no method of the
\* generator and leaves the game as it was.
C1_AskRequiresPlaying ==
  [][\A g \in GameIds :
       Called("ask", g) /\ games[g].status # "PLAYING"
         => /\ InvalidState(last'.response, games[g].status)
            /\ last'.calls = NoCalls
            /\ games' = games]_vars

\* an ask on a game in RESULT was refused
C1_Witness ==
  \E g \in DOMAIN games :
    /\ last.op = "ask" /\ last.game_id = g
    /\ games[g].status = "RESULT"
    /\ InvalidState(last.response, "RESULT")

\* C2: submit_guess on a game whose status is not GUESSING fails with 409
\* INVALID_STATE; it calls neither the generator's score_guess nor the scorer
\* and leaves the game as it was.
C2_SubmitGuessRequiresGuessing ==
  [][\A g \in GameIds :
       Called("submit_guess", g) /\ games[g].status # "GUESSING"
         => /\ InvalidState(last'.response, games[g].status)
            /\ last'.calls.score_guess = 0
            /\ last'.calls.evaluate = 0
            /\ last'.calls = NoCalls
            /\ games' = games]_vars

\* a submit_guess on a game still PLAYING was refused
C2_Witness ==
  \E g \in DOMAIN games :
    /\ last.op = "submit_guess" /\ last.game_id = g
    /\ games[g].status = "PLAYING"
    /\ InvalidState(last.response, "PLAYING")

\* C3: with a configured maximum N >= 1, every successful ask lowers
\* remaining_questions by exactly 1, never below 0; the status is PLAYING
\* afterwards while the new value is positive and GUESSING in the call that
\* brings it to 0; the counter is N less the number of successful asks (one
\* message each), so it is 0 after exactly N of them.
C3_CounterCountsDown ==
  [][\A g \in GameIds :
       /\ Called("ask", g)
       /\ last'.response.status_code = 200
       /\ settings.max_questions >= 1
       => /\ games'[g].remaining_questions = games[g].remaining_questions - 1
          /\ games'[g].remaining_questions >= 0
          /\ games'[g].status = IF games'[g].remaining_questions > 0 THEN "PLAYING"
                                ELSE "GUESSING"
          /\ Len(games'[g].messages) = Len(games[g].messages) + 1
          /\ games'[g].remaining_questions
               = settings.max_questions - Len(games'[g].messages)
          /\ last'.result.remaining_questions = games'[g].remaining_questions
          /\ last'.result.status = games'[g].status]_vars

\* the N-th successful ask of a game, N the largest configured maximum, N >= 2
C3_Witness ==
  \E g \in DOMAIN games :
    /\ last.op = "ask" /\ last.game_id = g /\ last.response.status_code = 200
    /\ settings.max_questions = MaxQuestionsBound
    /\ MaxQuestionsBound >= 2
    /\ Len(games[g].messages) = settings.max_questions
    /\ games[g].remaining_questions = 0
    /\ games[g].status = "GUESSING"

\* C4: under every sequence of calls the status of a game never moves
\* backward in the order INIT < PLAYING < GUESSING < RESULT < ENDED, and a
\* stored game stays stored.
C4_StatusNeverMovesBackward ==
  [][\A g \in DOMAIN games :
       /\ g \in DOMAIN games'
       /\ StatusRank(games'[g].status) >= StatusRank(games[g].status)]_vars

\* a game that went through PLAYING, GUESSING and RESULT and was then ended,
\* after which move_to_guessing was tried on it
C4_Witness ==
  \E g \in DOMAIN games :
    /\ games[g].status = "ENDED"
    /\ games[g].messages # <<>>
    /\ games[g].guess # <<>>
    /\ last.op = "move_to_guessing" /\ last.game_id = g

\* C5: end_game succeeds from every status and sets ENDED; an ENDED game
\* stays ENDED under every later call: ask, submit_guess, move_to_guessing
\* and patch_language are refused with 409 INVALID_STATE and end_game
\* succeeds again.
C5_EndedIsTerminal ==
  [][\A g \in GameIds :
       /\ Called("end_game", g)
            => /\ last'.response.status_code = 204
               /\ games'[g].status = "ENDED"
       /\ g \in DOMAIN games /\ games[g].status = "ENDED"
            => /\ g \in DOMAIN games'
               /\ games'[g].status = "ENDED"
               /\ Called("ask", g) \/ Called("submit_guess", g)
                    \/ Called("move_to_guessing", g) \/ Called("patch_language", g)
                    => /\ InvalidState(last'.response, "ENDED")
                       /\ games' = games]_vars

\* a game ended while in RESULT, on which patch_language was then refused
C5_Witness ==
  \E g \in DOMAIN games :
    /\ games[g].status = "ENDED"
    /\ games[g].guess # <<>>
    /\ last.op = "patch_language" /\ last.game_id = g
    /\ InvalidState(last.response, "ENDED")

\* C6: a successful create_game stores exactly one new game and changes no
\* other; the new game is PLAYING, its counter is the configured maximum, it
\* has no unlocked evidence, no message, no guess, and exactly one case,
\* which passes the validation of CaseFile.
C6_CreateGamePersistsPlayingGame ==
  [][last'.op = "create_game" /\ last'.response.status_code = 201
       => \E g \in GameIds \ DOMAIN games :
            /\ last'.game_id = g
            /\ DOMAIN games' = DOMAIN games \cup {g}
            /\ \A h \in DOMAIN games : games'[h] = games[h]
            /\ games'[g].status = "PLAYING"
            /\ games'[g].remaining_questions = settings.max_questions
            /\ games'[g].unlocked_evidence_count = 0
            /\ games'[g].messages = <<>>
            /\ games'[g].guess = <<>>
            /\ Len(games'[g].case) = 1
            /\ CaseFile_model_validate(games'[g].case[1]).kind = "ok"
            /\ last'.result.initial_state = "PLAYING"
            /\ last'.result.remaining_questions = settings.max_questions]_vars

\* a game was just created from the second attempt's case
C6_Witness ==
  \E g \in DOMAIN games :
    /\ last.op = "create_game" /\ last.game_id = g
    /\ last.response.status_code = 201
    /\ last.calls.generate_case = 2
    /\ games[g].status = "PLAYING"

\* the outcome of the k-th generate_case call and of validating its payload
Attempt(language_mode, request, draw) ==
  LET payload == llm_generate_case(build_llm_client(settings), language_mode, request, draw)
  IN  IF payload.kind = "ok" THEN CaseFile_model_validate(payload.value) ELSE payload

\* C7: create_game calls generate_case once or twice; twice only when the
\* first payload failed parsing or validation; an LLMError on the first
\* attempt ends the call after that one attempt; a create_game that yields
\* no valid case fails with the retryable 502 GEMINI_UNAVAILABLE and stores
\* nothing.
C7_AtMostTwoAttempts ==
  [][/\ last'.op = "create_game"
          => /\ last'.calls.generate_case \in {1, 2}
             /\ last'.response.status_code # 201
                  => /\ UpstreamUnavailable(last'.response)
                     /\ games' = games
     /\ games = <<>>
          => \A language_mode \in LanguageMode, r1 \in Remote(CaseRequests),
                r2 \in Remote(CaseRequests), d1 \in Draws, d2 \in Draws :
               LET first == Attempt(language_mode, r1, d1)
                   second == Attempt(language_mode, r2, d2)
                   outcome == create_game(settings, language_mode, <<r1, r2>>, <<d1, d2>>,
                                          "none")
               IN  /\ outcome.calls.generate_case \in {1, 2}
                   /\ outcome.calls.generate_case = 2
                        <=> first.kind \in {"ValueError", "ValidationError"}
                   /\ first.kind = "LLMError"
                        => /\ outcome.calls.generate_case = 1
                           /\ UpstreamUnavailable(outcome.response)
                   /\ first.kind # "ok" /\ (first.kind = "LLMError" \/ second.kind # "ok")
                        <=> UpstreamUnavailable(outcome.response)
                   /\ outcome.response.status_code # 201 => outcome.added = <<>>]_vars

\* a create_game failed after two attempts and stored nothing
C7_Witness ==
  /\ last.op = "create_game"
  /\ last.calls.generate_case = 2
  /\ UpstreamUnavailable(last.response)
  /\ games = <<>>

\* C8: whenever the answer_question call of the configured generator fails,
\* whatever the exception, ask fails with the retryable 502
\* GEMINI_UNAVAILABLE.  Stated for every PLAYING game and every input.
C8_AnswerFailureIsUpstreamUnavailable ==
  \A g \in DOMAIN games :
    games[g].status = "PLAYING"
      => \A question \in Questions, a \in Remote(AnswerRequests) :
           llm_answer_question(build_llm_client(settings), _case_of_game(games[g]).value,
                               question, _history_of_game(games[g]),
                               games[g].language_mode, a).kind # "ok"
             => UpstreamUnavailable(
                  ask(build_llm_client(settings), games[g], question, a,
                      Raise("LLMError")).response)

\* C9: on a GUESSING game no failure of the generator's score_guess call
\* reaches the caller: submit_guess succeeds, the rubric scores the guess,
\* the guess is stored and the status becomes RESULT.  Stated for every
\* GUESSING game and every input.
C9_ScoreFailureIsSwallowed ==
  \A g \in DOMAIN games :
    games[g].status = "GUESSING"
      => \A guess \in GuessesFor(games[g].case[1]), r \in Remote(ScoreRequests) :
           llm_score_guess(build_llm_client(settings), _case_of_game(games[g]).value, guess,
                           games[g].language_mode, r).kind # "ok"
             => LET outcome == submit_guess(build_llm_client(settings), games[g], guess, r)
                IN  /\ outcome.response.status_code = 200
                    /\ outcome.result.source = "rubric"
                    /\ outcome.game.guess # <<>>
                    /\ outcome.game.status = "RESULT"

\* the answer and the follow-up questions of ask before the contradiction check
BeforeCheck(game, raw_answer) ==
  split_answer_and_follow_up_questions(raw_answer, game.language_mode, FALSE)

\* C10: whenever ask reaches the contradiction check and the check fails,
\* whatever the exception, ask succeeds and returns the generator's answer
\* text (its follow-up block taken off) unchanged, with the embedded
\* follow-up questions or, without embedded ones, 3 fallback ones.  Stated
\* for every PLAYING game and every input.
C10_CheckFailureKeepsAnswer ==
  \A g \in DOMAIN games :
    games[g].status = "PLAYING"
      => \A question \in Questions, a \in Remote(AnswerRequests),
            c \in Remote(ContradictionRequests) :
           LET client == build_llm_client(settings)
               case_obj == _case_of_game(games[g]).value
               history == _history_of_game(games[g])
               raw_answer == llm_answer_question(client, case_obj, question, history,
                                                 games[g].language_mode, a)
               outcome == ask(client, games[g], question, a, c)
           IN  /\ raw_answer.kind = "ok"
               /\ outcome.calls.contradiction_check = 1
               /\ llm_contradiction_check(client, case_obj, question,
                                          BeforeCheck(games[g], raw_answer.value)[1],
                                          games[g].language_mode, c).kind # "ok"
               => /\ outcome.response.status_code = 200
                  /\ outcome.result.answer_text = BeforeCheck(games[g], raw_answer.value)[1]
                  /\ IF BeforeCheck(games[g], raw_answer.value)[2] # <<>>
                     THEN outcome.result.follow_up_questions
                            = BeforeCheck(games[g], raw_answer.value)[2]
                     ELSE Len(outcome.result.follow_up_questions) = 3

\* the answer of ask after the contradiction check, before the named-actor rule
CheckedAnswer(game, question, answer_request, contradiction_request) ==
  LET client == build_llm_client(settings)
      case_obj == _case_of_game(game).value
      before == BeforeCheck(game, llm_answer_question(client, case_obj, question,
                                                      _history_of_game(game),
                                                      game.language_mode,
                                                      answer_request).value)
      checked == llm_contradiction_check(client, case_obj, question, before[1],
                                         game.language_mode, contradiction_request)
  IN  ApplyContradiction(IF checked.kind = "LLMError"
                         THEN ContradictionDict(FALSE, before[1]) ELSE checked.value,
                         before[1], before[2], case_obj, game.language_mode,
                         Len(game.messages)).value[1]

C12_EvidenceUnlocksInOrder ==
  [][/\ \A g \in GameIds :
          Called("ask", g) /\ last'.response.status_code = 200
            => IF games[g].unlocked_evidence_count
                    < Len(_case_of_game(games[g]).value.evidence)
               THEN /\ games'[g].unlocked_evidence_count
                         = games[g].unlocked_evidence_count + 1
                    /\ last'.result.unlocked_evidence
                         = games[g].unlocked_evidence_count + 1
               ELSE /\ games'[g].unlocked_evidence_count
                         = games[g].unlocked_evidence_count
                    /\ last'.result.unlocked_evidence = 0
     /\ \A g \in DOMAIN games :
          /\ g \in DOMAIN games'
          /\ games'[g].unlocked_evidence_count >= games[g].unlocked_evidence_count
     /\ \A g \in DOMAIN games' :
          /\ games'[g].unlocked_evidence_count
               <= Len(_case_of_game(games'[g]).value.evidence)
          /\ games'[g].unlocked_evidence_count
               = Min(Len(games'[g].messages),
                     Len(_case_of_game(games'[g]).value.evidence))]_vars

\* a successful ask on a game whose evidence was all unlocked unlocked nothing
C12_Witness ==
  \E g \in DOMAIN games :
    /\ last.op = "ask"
    /\ last.game_id = g
    /\ last.response.status_code = 200
    /\ last.result.unlocked_evidence = 0
    /\ games[g].unlocked_evidence_count = Len(_case_of_game(games[g]).value.evidence)
    /\ Len(games[g].messages) > games[g].unlocked_evidence_count

\* C13: a game never has more than one Guess record; a successful
\* submit_guess stores the submitted killer, motive, method, trick and
\* reasoning with the computed score, grade and feedback, moves the status
\* from GUESSING to RESULT and returns the score and the grade it stored.
C13_OneGuessPerGame ==
  [][/\ \A g \in DOMAIN games' : Len(games'[g].guess) <= 1
     /\ \A g \in GameIds :
          Called("submit_guess", g) /\ last'.response.status_code = 200
            => /\ games[g].status = "GUESSING"
               /\ games'[g].status = "RESULT"
               /\ Len(games'[g].guess) = 1
               /\ \E guess \in GuessesFor(games[g].case[1]) :
                    /\ games'[g].guess[1].killer = guess.killer
                    /\ games'[g].guess[1].motive = guess.motive
                    /\ games'[g].guess[1].method = guess.method
                    /\ games'[g].guess[1].trick = guess.trick
                    /\ games'[g].guess[1].reasoning = guess.reasoning
               /\ games'[g].guess[1].score = last'.result.score
               /\ games'[g].guess[1].grade = last'.result.grade
               /\ games'[g].guess[1].feedback.text = last'.result.feedback
               /\ games'[g].guess[1].feedback.matches = last'.result.matches
     /\ \A g \in DOMAIN games :
          games[g].guess # <<>> => games'[g].guess = games[g].guess]_vars

\* a guess was scored and stored, and the game shows its result
C13_Witness ==
  \E g \in DOMAIN games :
    /\ last.op = "submit_guess"
    /\ last.game_id = g
    /\ last.response.status_code = 200
    /\ games[g].status = "RESULT"
    /\ Len(games[g].guess) = 1
    /\ games[g].guess[1].score = last.result.score

\* C14: move_to_guessing succeeds exactly when the game is PLAYING; on
\* success the status becomes GUESSING and the counter, the unlocked count,
\* the language, the case, the messages and the guess stay as they were; in
\* every other status it is refused with 409 INVALID_STATE and changes
\* nothing.
C14_MoveToGuessingOnlyFromPlaying ==
  [][\A g \in GameIds :
       Called("move_to_guessing", g)
         => IF games[g].status = "PLAYING"
            THEN /\ last'.response.status_code = 204
                 /\ games'[g] = [games[g] EXCEPT !.status = "GUESSING"]
            ELSE /\ InvalidState(last'.response, games[g].status)
                 /\ games' = games]_vars

\* a PLAYING game with questions left and a message stored was moved to GUESSING
C14_Witness ==
  \E g \in DOMAIN games :
    /\ last.op = "move_to_guessing"
    /\ last.game_id = g
    /\ last.response.status_code = 204
    /\ games[g].status = "GUESSING"
    /\ games[g].remaining_questions > 0
    /\ games[g].messages # <<>>

\* C15: patch_language succeeds exactly when the game is not ENDED; on
\* success only the game's language_mode changes (the status, the counter,
\* the unlocked count, the case, the guess and the stored messages with
\* their recorded language stay as they were); a later successful ask
\* stores its message with the language the game then has and leaves the
\* earlier messages alone.
C15_PatchLanguageChangesOnlyLanguage ==
  [][\A g \in GameIds :
       /\ Called("patch_language", g)
            => IF games[g].status # "ENDED"
               THEN /\ last'.response.status_code = 200
                    /\ \E language_mode \in LanguageMode :
                         /\ last'.result.language_mode = language_mode
                         /\ games'[g] = [games[g] EXCEPT !.language_mode = language_mode]
               ELSE /\ InvalidState(last'.response, "ENDED")
                    /\ games' = games
       /\ Called("ask", g) /\ last'.response.status_code = 200
            => /\ Len(games'[g].messages) = Len(games[g].messages) + 1
               /\ games'[g].messages[Len(games'[g].messages)].language_mode
                    = games[g].language_mode
               /\ games'[g].language_mode = games[g].language_mode
               /\ SubSeq(games'[g].messages, 1, Len(games[g].messages))
                    = games[g].messages]_vars

\* after a language change a message was stored in the new language, next
\* to an earlier message that keeps the old one
C15_Witness ==
  \E g \in DOMAIN games :
    /\ last.op = "ask"
    /\ last.game_id = g
    /\ last.response.status_code = 200
    /\ Len(games[g].messages) = 2
    /\ games[g].messages[1].language_mode # games[g].messages[2].language_mode
    /\ games[g].messages[2].language_mode = games[g].language_mode

\* C16: with FallbackLLMClient configured, whenever the primary's
\* generate_case, answer_question, contradiction_check or score_guess fails,
\* whatever the cause, the caller gets what the secondary returns for the
\* same arguments; and with the fake client as secondary create_game and ask
\* succeed even when every request of the primary fails.  Stated for every
\* stored game and every input.
C16_FallbackSubstitutesSecondary ==
  build_llm_client(settings) = "fallback"
    => /\ \A language_mode \in LanguageMode, r \in CaseRequests, d \in Draws :
            /\ GeminiLLMClient_generate_case(r).kind # "ok"
                 => llm_generate_case("fallback", language_mode, r, d)
                      = FakeLLMClient_generate_case(language_mode, d)
            /\ create_game(settings, language_mode,
                           <<Raise("LLMError"), Raise("LLMError")>>, <<d, d>>,
                           "LLMError").response.status_code = 201
       /\ \A g \in DOMAIN games :
            LET case_obj == _case_of_game(games[g]).value
                language_mode == games[g].language_mode
            IN  /\ \A question \in Questions, r \in AnswerRequests :
                     GeminiLLMClient_answer_question(r).kind # "ok"
                       => llm_answer_question("fallback", case_obj, question,
                                              _history_of_game(games[g]), language_mode, r)
                            = FakeLLMClient_answer_question(case_obj, question,
                                                            _history_of_game(games[g]),
                                                            language_mode)
                /\ \A question \in Questions, r \in ContradictionRequests :
                     GeminiLLMClient_contradiction_check(r).kind # "ok"
                       => llm_contradiction_check("fallback", case_obj, question,
                                                  <<"Ann", " ", "left early">>,
                                                  language_mode, r)
                            = FakeLLMClient_contradiction_check(case_obj, question,
                                                                <<"Ann", " ", "left early">>,
                                                                language_mode)
                /\ \A guess \in GuessesFor(games[g].case[1]), r \in ScoreRequests :
                     GeminiLLMClient_score_guess(r).kind # "ok"
                       => llm_score_guess("fallback", case_obj, guess, language_mode, r)
                            = FakeLLMClient_score_guess(case_obj, guess, language_mode)
                /\ games[g].status = "PLAYING"
                     => \A question \in Questions :
                          ask("fallback", games[g], question, Raise("LLMError"),
                              Raise("LLMError")).response.status_code = 200

\* the attempt the step just made, when it made one
AttemptMade == gemini_request'.attempts[Len(gemini_request'.attempts)]

\* C17: inside one request a failed attempt is followed by another attempt
\* only if its error is an API error with a retryable status (408, 429,
\* 500, 502, 503, 504); after any other error (a non-retryable API error,
\* an empty or blocked response, a missing API key or invalid
\* configuration, an unexpected exception) the call ends with that attempt.
C17_OnlyRetryableErrorsAreRetried ==
  [][Len(gemini_request'.attempts) = Len(gemini_request.attempts) + 1
       /\ AttemptMade.kind # "ok"
       => /\ gemini_request'.pc = "attempt"
               => /\ AttemptMade.kind = "APIError"
                  /\ AttemptMade.has_code
                  /\ AttemptMade.code \in {408, 429, 500, 502, 503, 504}
          /\ ~(/\ AttemptMade.kind = "APIError"
               /\ AttemptMade.has_code
               /\ AttemptMade.code \in {408, 429, 500, 502, 503, 504})
               => gemini_request'.pc = "raised"]_vars

\* C18: a request makes at least 1 and at most max(1, N) attempts, N the
\* configured gemini_max_attempts; it returns the response of its first
\* successful attempt; otherwise every attempt failed and it ends with
\* LLMError; while it is still running fewer than max(1, N) attempts were
\* made, so it cannot go on for ever.
C18_BoundedAttempts ==
  gemini_request.pc # "none"
    => LET n == Len(gemini_request.attempts)
           failed(k) == \A i \in 1..k : gemini_request.attempts[i].kind # "ok"
       IN  /\ n <= Max(1, settings.gemini_max_attempts)
           /\ gemini_request.pc \in {"attempt", "returned", "raised"}
           /\ gemini_request.pc = "attempt"
                => n < Max(1, settings.gemini_max_attempts) /\ failed(n)
           /\ gemini_request.pc = "returned"
                => /\ n >= 1
                   /\ failed(n - 1)
                   /\ gemini_request.attempts[n].kind = "ok"
                   /\ gemini_request.result = Ok(gemini_request.attempts[n].value)
           /\ gemini_request.pc = "raised"
                => /\ n >= 1
                   /\ failed(n)
                   /\ gemini_request.result.kind = "LLMError"

\* a request that returned the response of its third attempt, the last one allowed
C18_Witness ==
  /\ gemini_request.pc = "returned"
  /\ Len(gemini_request.attempts) = 3
  /\ settings.gemini_max_attempts = 3
  /\ gemini_request.attempts[1].kind # "ok"

\* a text was encoded and the encoded text then decoded once, defaults disabled
RoundTripDone ==
  /\ codec.stage = "decoded"
  /\ codec.encoded
  /\ Len(codec.decoded) = 1
  /\ ~codec.decoded[1].with_default

\* C19 as stated: for any body and any list of 0 to 3 non-empty distinct
\* questions, decoding (defaults disabled) the encoded text returns exactly
\* that body and exactly those questions in the same order.
C19_RoundTripOfAnyBody ==
  RoundTripDone
    => /\ codec.decoded[1].body = codec.body
       /\ codec.decoded[1].questions = codec.questions

\* the question is one line, holds no close tag, and normalization leaves
\* it as it is: no white space around it, no numbering in front, no bullet
\* character (space, middle dot, hyphen) at either end
PlainQuestion(question) ==
  /\ "\n" \notin Range(question)
  /\ FOLLOW_UP_CLOSE_TAG \notin Range(question)
  /\ _normalize_follow_up_questions(<<question>>, "en", FALSE) = <<question>>

\* C19 as amended: for any non-empty body that has no white space at
\* either end and holds no open tag, and any list of 0 to 3 distinct
\* questions each of which is one line without a close tag and already
\* normalized, decoding (defaults disabled) the encoded text returns exactly
\* that body and exactly those questions in the same order.
C19_RoundTripOfPlainBody ==
  /\ RoundTripDone
  /\ codec.body # <<>>
  /\ Strip(codec.body) = codec.body
  /\ FOLLOW_UP_OPEN_TAG \notin Range(codec.body)
  /\ \A i \in 1..Len(codec.questions) : PlainQuestion(codec.questions[i])
  => /\ codec.decoded[1].body = codec.body
     /\ codec.decoded[1].questions = codec.questions

\* a body holding a close tag and two plain questions went through the round trip
C19_Witness ==
  /\ RoundTripDone
  /\ codec.body = <<"who?", FOLLOW_UP_CLOSE_TAG>>
  /\ codec.questions = << <<"who?">>, <<"why?">> >>
  /\ codec.decoded[1].questions = codec.questions

\* C20: decoding (defaults disabled) the body that a decode returned gives
\* that body back unchanged, with no questions, whatever the text first
\* decoded was.
C20_DecodeIsIdempotent ==
  /\ Len(codec.decoded) = 2
  /\ ~codec.decoded[2].with_default
  => /\ codec.decoded[2].body = codec.decoded[1].body
     /\ codec.decoded[2].questions = <<>>

\* the step decodes the text at hand
DecodeStep == Len(codec'.decoded) = Len(codec.decoded) + 1

\* what the decode of this step returned
Decoded == codec'.decoded[Len(codec'.decoded)]

\* the text holds an open tag with a close tag somewhere after it
HasMarkerPair(text) ==
  \E i \in 1..Len(text), j \in 1..Len(text) :
    i < j /\ text[i] = FOLLOW_UP_OPEN_TAG /\ text[j] = FOLLOW_UP_CLOSE_TAG

\* C21: decoding a text without a complete open/close marker pair returns
\* the trimmed text as the body, with no questions when defaults are
\* disabled and exactly the 3 default questions of the language when they
\* are enabled.
C21_TextWithoutBlockIsKept ==
  [][DecodeStep /\ ~HasMarkerPair(codec.text)
       => /\ Decoded.body = Strip(codec.text)
          /\ ~Decoded.with_default => Decoded.questions = <<>>
          /\ Decoded.with_default
               => /\ Len(Decoded.questions) = 3
                  /\ Decoded.questions = default_follow_up_questions(codec.language_mode)]_vars

\* a text with a close tag before an open tag, padded with nothing, was
\* decoded with defaults enabled in Japanese
C21_Witness ==
  /\ ~codec.encoded
  /\ Len(codec.decoded) = 1
  /\ codec.body = <<FOLLOW_UP_CLOSE_TAG, FOLLOW_UP_OPEN_TAG>>
  /\ codec.language_mode = "ja"
  /\ codec.decoded[1].with_default
  /\ codec.decoded[1].body = codec.body
  /\ Len(codec.decoded[1].questions) = 3

\* the first open tag that has a close tag after it
FirstOpen(text) ==
  CHOOSE i \in 1..Len(text) :
    /\ text[i] = FOLLOW_UP_OPEN_TAG
    /\ \E j \in (i + 1)..Len(text) : text[j] = FOLLOW_UP_CLOSE_TAG
    /\ \A k \in 1..(i - 1) :
         ~(text[k] = FOLLOW_UP_OPEN_TAG
           /\ \E j \in (k + 1)..Len(text) : text[j] = FOLLOW_UP_CLOSE_TAG)

\* the first close tag after the first open tag
FirstClose(text) ==
  CHOOSE j \in (FirstOpen(text) + 1)..Len(text) :
    /\ text[j] = FOLLOW_UP_CLOSE_TAG
    /\ \A k \in (FirstOpen(text) + 1)..(j - 1) : text[k] # FOLLOW_UP_CLOSE_TAG

\* the text with the first marker pair and what lies between them cut out
TextWithoutFirstPair(text) ==
  SubSeq(text, 1, FirstOpen(text) - 1) \o SubSeq(text, FirstClose(text) + 1, Len(text))

\* the lines between the first marker pair, each trimmed, without its
\* leading numbering and without space, middle dot and hyphen at its ends
BlockCandidates(text) ==
  LET lines == SplitLines(SubSeq(text, FirstOpen(text) + 1, FirstClose(text) - 1))
  IN  [k \in 1..Len(lines) |->
         StripChars(StripNumbering(Strip(lines[k])), {" ", KatakanaMiddleDot, "-"})]

\* the places of the candidates that are not empty and not seen before
FirstOccurrences(candidates) ==
  {p \in 1..Len(candidates) :
     /\ candidates[p] # <<>>
     /\ \A q \in 1..(p - 1) : candidates[q] # candidates[p]}

\* the first three distinct non-empty candidates, in order of appearance
BlockQuestions(text) ==
  LET candidates == BlockCandidates(text)
      places == FirstOccurrences(candidates)
  IN  [i \in 1..Min(3, Cardinality(places)) |->
         candidates[CHOOSE p \in places :
                      Cardinality({q \in places : q < p}) = i - 1]]

\* C22 as stated: decoding a text with a marker block removes the first
\* marker pair and its content from the body (which is trimmed) and returns
\* as questions the block's non-empty lines without numbering and bullet
\* characters, de-duplicated in order of appearance and capped at 3.
C22_BlockQuestionsOnly ==
  [][DecodeStep /\ HasMarkerPair(codec.text)
       => /\ Decoded.body = Strip(TextWithoutFirstPair(codec.text))
          /\ Decoded.questions = BlockQuestions(codec.text)]_vars

\* the questions topped up to three with the defaults not among them
ToppedUp(questions, defaults) ==
  FirstThree(questions \o SelectSeq(defaults, LAMBDA q : q \notin Range(questions)))

\* C22 as amended: decoding a text with a marker block removes the first
\* marker pair and its content and returns the trimmed rest as the body;
\* with defaults disabled the questions are the first three distinct
\* non-empty cleaned lines of the block, in order of appearance; with
\* defaults enabled that list is topped up to three with the default
\* questions of the language that are not already in it.
C22_BlockQuestionsThenDefaults ==
  [][DecodeStep /\ HasMarkerPair(codec.text)
       => /\ Decoded.body = Strip(TextWithoutFirstPair(codec.text))
          /\ Decoded.questions =
               IF Decoded.with_default
               THEN ToppedUp(BlockQuestions(codec.text),
                             default_follow_up_questions(codec.language_mode))
               ELSE BlockQuestions(codec.text)]_vars

\* a block whose lines repeat a question was decoded: the body holds an
\* open tag and the first question again, the repeat is dropped
C22_Witness ==
  /\ RoundTripDone
  /\ codec.body = <<FOLLOW_UP_OPEN_TAG, "who?">>
  /\ codec.questions = << <<"who?">>, <<"why?">> >>
  /\ codec.decoded[1].body = <<>>
  /\ codec.decoded[1].questions = << <<"who?">>, <<FOLLOW_UP_OPEN_TAG>>, <<"why?">> >>

\* ScoringService.evaluate has returned a result
Evaluated == call.fn = "evaluate" /\ call.stage = "returned" /\ call.result.kind = "ok"

\* C23: evaluate never returns a score outside 0..100 or a grade outside
\* S, A, B, C, whatever the case, the guess and the llm_result argument.
C23_ScoreAndGradeInRange ==
  Evaluated
    => /\ call.result.value.score \in 0..100
       /\ call.result.value.grade \in {"S", "A", "B", "C"}

\* evaluate scored by the rubric: no payload, or one that fails the shape check
RubricScored ==
  /\ Evaluated
  /\ ~(Truthy(call.args.llm_result) /\ _llm_payload_looks_valid(call.args.llm_result))

\* the guess names the true killer by name
GuessNamesKiller ==
  call.args.guess.killer
    = CharacterById(call.args.case_data.characters, call.args.case_data.killer_id).name

\* the text is empty or white space only
Blank(text) == Strip(text) = <<>>

\* the guess with the true killer and blank motive, method and trick scores
\* exactly 40 with grade C
BlankAnchor ==
  /\ RubricScored
  /\ GuessNamesKiller
  /\ Blank(call.args.guess.motive)
  /\ Blank(call.args.guess.method)
  /\ Blank(call.args.guess.trick)
  => call.result.value.score = 40 /\ call.result.value.grade = "C"

\* the guess repeats the killer's name and the three ground-truth texts
GuessIsTruth ==
  /\ GuessNamesKiller
  /\ call.args.guess.motive = call.args.case_data.motive
  /\ call.args.guess.method = call.args.case_data.method
  /\ call.args.guess.trick = call.args.case_data.trick

\* C24 as stated: under the rubric a guess with the true killer's name and
\* motive, method and trick identical to the ground truth scores 100 with
\* grade S, and a guess with the true killer and blank motive, method and
\* trick scores exactly 40 with grade C.
C24_AnchorPointsOfAnyCase ==
  /\ RubricScored /\ GuessIsTruth
       => call.result.value.score = 100 /\ call.result.value.grade = "S"
  /\ BlankAnchor

\* C24 as amended: the first anchor point holds for a case whose motive,
\* method and trick are not blank; the second anchor point holds as stated.
C24_AnchorPointsOfNonBlankCase ==
  /\ /\ RubricScored /\ GuessIsTruth
     /\ ~Blank(call.args.case_data.motive)
     /\ ~Blank(call.args.case_data.method)
     /\ ~Blank(call.args.case_data.trick)
     => call.result.value.score = 100 /\ call.result.value.grade = "S"
  /\ BlankAnchor

\* the truth of the English local case was scored by the rubric
C24_Witness ==
  /\ RubricScored /\ GuessIsTruth
  /\ call.args.llm_result = JsonNull
  /\ call.args.case_data \in {build_local_case("en", draw) : draw \in SampleDraws}
  /\ call.result.value.score = 100

\* CaseFile.model_validate has accepted the payload
Accepted == call.fn = "model_validate" /\ call.stage = "returned" /\ call.result.kind = "ok"

\* the ids of the characters of the payload that carry the flag
FlaggedIds(characters, flag) ==
  {characters[i].id : i \in {k \in 1..Len(characters) : characters[k][flag]}}

\* C25: validation accepts a payload only if it has 4 to 6 characters, at
\* least 5 evidence items, distinct killer_id and liar_id that are ids of
\* listed characters, exactly one character flagged is_killer and exactly
\* one flagged is_liar, those being the characters the two ids name; the
\* accepted case is the payload as given, never a repaired one.
C25_OnlyWellFormedCasesAreAccepted ==
  Accepted
    => LET payload == call.args
           characters == payload.characters
       IN  /\ Len(characters) \in 4..6
           /\ Len(payload.evidence) >= 5
           /\ payload.killer_id # payload.liar_id
           /\ \E i \in 1..Len(characters) : characters[i].id = payload.killer_id
           /\ \E i \in 1..Len(characters) : characters[i].id = payload.liar_id
           /\ Cardinality({i \in 1..Len(characters) : characters[i].is_killer}) = 1
           /\ Cardinality({i \in 1..Len(characters) : characters[i].is_liar}) = 1
           /\ FlaggedIds(characters, "is_killer") = {payload.killer_id}
           /\ FlaggedIds(characters, "is_liar") = {payload.liar_id}
           /\ call.result.value = payload

\* a payload of six characters, one of them repeating an id, was accepted
C25_Witness ==
  /\ Accepted
  /\ Len(call.args.characters) = 6
  /\ call.args.characters[2].id = call.args.characters[1].id
  /\ call.args.killer_id = "a"

\* build_local_case has returned a case
Built == call.fn = "build_local_case" /\ call.stage = "returned"

\* C26: every case build_local_case can produce, for every draw of the five
\* people, of the killer index and of the liar index, in either language,
\* passes validation, has 5 characters with distinct ids, 6 evidence items,
\* exactly one killer and one liar who are different characters, and a
\* timeline that is not empty.
C26_LocalCasesAreValid ==
  Built
    => LET case == call.result.value
           characters == case.characters
           killers == {i \in 1..Len(characters) : characters[i].is_killer}
           liars == {i \in 1..Len(characters) : characters[i].is_liar}
       IN  /\ CaseFile_model_validate(case) = Ok(case)
           /\ Len(characters) = 5
           /\ \A i, j \in 1..5 : characters[i].id = characters[j].id => i = j
           /\ Len(case.evidence) = 6
           /\ Cardinality(killers) = 1
           /\ Cardinality(liars) = 1
           /\ killers # liars
           /\ Len(case.timeline) > 0

\* the Japanese case whose first person is the killer and whose last person
\* is the liar was built
C26_Witness ==
  /\ Built
  /\ call.args.language_mode = "ja"
  /\ call.args.draw.killer_index = 0
  /\ call.args.draw.liar_index = 4
  /\ call.result.value.characters[1].is_killer
  /\ call.result.value.characters[5].is_liar

\* the clients an ask is tried with
AskClients == {"fake", "gemini"}

\* the contradiction responses an ask is tried with: those of the service's
\* runs, a replacement without a block, and an empty replacement
AskedChecks ==
  ContradictionRequests
  \cup { Json(ContradictionDict(TRUE, <<"Bob", " ", "left early">>)),
         Json(ContradictionDict(TRUE, <<>>)) }

\* the check returned contradiction = true with a fixed_answer that is not empty
Replaces(checked) ==
  /\ checked.kind = "ok"
  /\ checked.value.type = "dict"
  /\ checked.value.contradiction
  /\ checked.value.fixed_answer # <<>>

\* what an ask of this game sees on its way: the decoded answer of the
\* generator, whether the check replaces it, and the decoded replacement
AskParts(client, game, question, answer_request, contradiction_request) ==
  LET case_obj == _case_of_game(game).value
      raw == llm_answer_question(client, case_obj, question, _history_of_game(game),
                                 game.language_mode, answer_request)
      first == split_answer_and_follow_up_questions(raw.value, game.language_mode, FALSE)
      checked == llm_contradiction_check(client, case_obj, question, first[1],
                                         game.language_mode, contradiction_request)
  IN  [first |-> first,
       replaced |-> Replaces(checked),
       rewritten |-> IF Replaces(checked)
                     THEN split_answer_and_follow_up_questions(
                            checked.value.fixed_answer, game.language_mode, FALSE)
                     ELSE << <<>>, <<>> >>]

\* candidates[h mod 4], candidates[(h+1) mod 4], candidates[(h+2) mod 4] of
\* the case, h being the number of messages of the game
RotatedCandidates(game) ==
  LET case_obj == _case_of_game(game).value
      h == Len(game.messages)
      candidates == FollowUpCandidates(game.language_mode, case_obj.victim_name,
                                       case_obj.timeline[Min(h, Len(case_obj.timeline) - 1) + 1],
                                       case_obj.evidence[Min(h, Len(case_obj.evidence) - 1) + 1])
  IN  <<candidates[(h % 4) + 1], candidates[((h + 1) % 4) + 1], candidates[((h + 2) % 4) + 1]>>

\* C27: when neither the generator's answer nor an applied replacement of
\* the contradiction check embeds a follow-up question, a successful ask
\* returns exactly the 3 questions candidates[h mod 4], candidates[(h+1) mod
\* 4], candidates[(h+2) mod 4] of the case, h being the number of prior
\* messages.  Stated for every PLAYING game, client and response.
C27_FallbackQuestionsRotate ==
  \A g \in DOMAIN games :
    games[g].status = "PLAYING"
      => \A client \in AskClients, question \in Questions, a \in AnswerRequests,
            c \in AskedChecks :
           LET parts == AskParts(client, games[g], question, a, c)
               outcome == ask(client, games[g], question, a, c)
           IN  /\ outcome.response.status_code = 200
               /\ parts.first[2] = <<>>
               /\ parts.replaced => parts.rewritten[2] = <<>>
               => /\ Len(outcome.result.follow_up_questions) = 3
                  /\ outcome.result.follow_up_questions = RotatedCandidates(games[g])

\* the fourth ask of a game returned the fourth, the first and the second
\* candidate
C27_Witness ==
  \E g \in DOMAIN games :
    /\ last.op = "ask"
    /\ last.game_id = g
    /\ last.response.status_code = 200
    /\ Len(games[g].messages) = 4
    /\ last.result.follow_up_questions
         = RotatedCandidates([games[g] EXCEPT !.messages = SubSeq(@, 1, 3)])
    /\ last.result.follow_up_questions[2][1] \in {"Who was near", "1"}

\* the answer as ask returns it: itself when it names a character, the
\* synthesized answer otherwise
NamedActorRule(game, question, answer) ==
  IF _answer_has_named_actor(answer, _case_of_game(game).value) THEN answer
  ELSE _build_explicit_actor_answer(_case_of_game(game).value, question,
                                    game.language_mode).value

\* the follow-up questions ask holds before the check: the embedded ones,
\* else the rotated candidates
EarlierFollowUps(game, parts) ==
  IF parts.first[2] # <<>> THEN parts.first[2] ELSE RotatedCandidates(game)

Synthesized ==
  /\ call.fn = "_build_explicit_actor_answer"
  /\ call.stage = "returned"
  /\ call.result.kind = "ok"

\* the question holds a location or time cue of the language
LocationOrTimeCue(question, language_mode) ==
  IF language_mode = "en"
  THEN ContainsAny(Lower(question), {"where", "alibi", "at the time", "when"})
  ELSE ContainsAny(question, {"ja:doko", "ja:aribai", "ja:touji", "ja:itsu"})

\* the question holds an evidence cue of the language
EvidenceCue(question, language_mode) ==
  IF language_mode = "en"
  THEN ContainsAny(Lower(question), {"evidence", "clue", "proof"})
  ELSE ContainsAny(question, {"ja:shouko", "ja:tegakari(kanji)", "ja:tegakari(kana)"})

\* the kind of a synthesized answer, read off its text: the evidence
\* comparison quotes the first evidence item, the timeline answer the first
\* event, the alibi answer neither
StyleOf(answer, case_obj) ==
  IF Contains(answer, case_obj.evidence[1].name) THEN "evidence"
  ELSE IF Contains(answer, case_obj.timeline[1].event) THEN "timeline"
  ELSE "alibi"

\* the places, among the first three characters, of those the answer names
NamedAmongFirstThree(answer, case_obj) ==
  {i \in 1..3 : Contains(answer, case_obj.characters[i].name)}

\* C29: the synthesized answer is decided by the case, the question and the
\* language: with a location or time cue it is the alibi answer naming
\* characters 1 and 2, also when an evidence cue is present too; otherwise
\* with an evidence cue the evidence comparison naming characters 1 and 2;
\* otherwise the timeline answer naming characters 1 and 3; in either
\* language.
C29_SynthesizedAnswerFollowsTheCue ==
  Synthesized
    => LET answer == call.result.value
           case_obj == call.args.case_obj
           location == LocationOrTimeCue(call.args.question, call.args.language_mode)
           evidence == EvidenceCue(call.args.question, call.args.language_mode)
       IN  /\ StyleOf(answer, case_obj)
                = IF location THEN "alibi" ELSE IF evidence THEN "evidence" ELSE "timeline"
           /\ NamedAmongFirstThree(answer, case_obj)
                = IF location \/ evidence THEN {1, 2} ELSE {1, 3}

\* a Japanese question with both cues got the alibi answer
C29_Witness ==
  /\ Synthesized
  /\ call.args.language_mode = "ja"
  /\ call.args.question = <<"ja:shouko", "ja:itsu">>
  /\ StyleOf(call.result.value, call.args.case_obj) = "alibi"
  /\ NamedAmongFirstThree(call.result.value, call.args.case_obj) = {1, 2}

\* the step sleeps before a retry
SleepStep == Len(gemini_request'.slept) = Len(gemini_request.slept) + 1

\* the number k of the retry the step sleeps before, 0 for the first
RetryNumber == Len(gemini_request.slept)

\* how long the step sleeps, in tenths of a second
Slept == gemini_request'.slept[Len(gemini_request'.slept)]

\* the delay is min(max_delay, base * 2^k + jitter) for a jitter of 0 to
\* base, is at most max_delay and at least min(max_delay, base * 2^k)
BackoffOf(delay, base, max_delay, k) ==
  /\ \E jitter \in 0..base : delay = Min(max_delay, base * 2^k + jitter)
  /\ delay <= max_delay
  /\ delay >= Min(max_delay, base * 2^k)

\* C30 as stated: the sleep before retry k is min(max_delay, base * 2^k +
\* jitter) with 0 <= jitter <= base, never above max_delay and never below
\* min(max_delay, base * 2^k), base and max_delay being the configured
\* gemini_retry_delay_sec and gemini_retry_max_delay_sec, whatever they are.
C30_BackoffOfConfiguredValues ==
  [][SleepStep
       => BackoffOf(Slept, settings.gemini_retry_delay_sec,
                    settings.gemini_retry_max_delay_sec, RetryNumber)]_vars

\* C30 as amended: the formula and its two limits hold with base the
\* configured gemini_retry_delay_sec raised to at least 0.1 s and max_delay
\* the configured gemini_retry_max_delay_sec raised to at least that base.
C30_BackoffOfEffectiveValues ==
  [][SleepStep
       => BackoffOf(Slept,
                    Max(1, settings.gemini_retry_delay_sec),
                    Max(settings.gemini_retry_max_delay_sec,
                        Max(1, settings.gemini_retry_delay_sec)),
                    RetryNumber)]_vars

\* the second retry of a request slept the whole max_delay, the doubled
\* base and the jitter being more
C30_Witness ==
  /\ settings.gemini_retry_delay_sec = 2
  /\ settings.gemini_retry_max_delay_sec = 5
  /\ Len(gemini_request.slept) = 2
  /\ gemini_request.slept[2] = 5

\* the number that the feedback text shows at position i
PointsShown(feedback, i) == CHOOSE n \in 0..100 : ToString(n) = feedback[i]

\* the motive, method and trick points as the feedback of the rubric shows
\* them: "... alignment: m/20, h/20, t/20."
SubScores ==
  LET feedback == call.result.value.feedback
      first == IF call.args.language_mode = "en" THEN 8 ELSE 6
  IN  [motive |-> PointsShown(feedback, first),
       method |-> PointsShown(feedback, first + 4),
       trick |-> PointsShown(feedback, first + 8)]

\* the guessed killer is the killer's name or id, letter case and white space aside
KillerGuessed ==
  LET killer == CharacterById(call.args.case_data.characters, call.args.case_data.killer_id)
      plain(text) == SelectSeq(Lower(text), LAMBDA c : c \notin Whitespace)
  IN  plain(call.args.guess.killer) \in {plain(killer.name), plain(<<killer.id>>)}

\* S from 90, A from 75 to 89, B from 60 to 74, C below
GradeBands(score, grade) ==
  /\ grade = "S" <=> score >= 90
  /\ grade = "A" <=> (75 <= score /\ score < 90)
  /\ grade = "B" <=> (60 <= score /\ score < 75)
  /\ grade = "C" <=> score < 60

\* C31: when no payload is accepted the score is 40 for the killer (0 when
\* the killer does not match) plus the motive, method and trick points, each
\* of them in 0..20; a sub-score's match flag is true exactly when its points
\* are at least 12; the grade is S from 90, A from 75, B from 60 and C below.
C31_RubricScoreAndGrade ==
  RubricScored
    => LET result == call.result.value
       IN  /\ \A part \in {"motive", "method", "trick"} :
                /\ SubScores[part] \in 0..20
                /\ result.matches[part] <=> SubScores[part] >= 12
           /\ result.matches.killer <=> KillerGuessed
           /\ result.score = (IF KillerGuessed THEN 40 ELSE 0)
                               + SubScores.motive + SubScores.method + SubScores.trick
           /\ GradeBands(result.score, result.grade)

\* the rubric gave the motive some points but fewer than a match needs,
\* with the killer, the method and the trick right: 40 + 20 + 20 + less than 12
C31_Witness ==
  /\ RubricScored
  /\ SubScores.motive \in 1..11
  /\ SubScores.method = 20
  /\ SubScores.trick = 20
  /\ call.result.value.matches.killer
  /\ call.result.value.grade = "A"

\* the entry is the text `special` exactly when `flagged`, the boilerplate
\* `default` exactly when not, each in the language of the call
WeaknessIs(entry, flagged, special, default) ==
  /\ entry = <<call.args.language_mode, special>> <=> flagged
  /\ entry = <<call.args.language_mode, default>> <=> ~flagged

\* C33: the rubric returns exactly 3 weaknesses: the first is the
\* killer-mismatch text iff the killer flag is false, the second the motive
\* text iff the motive flag is false, the third the mechanism text iff the
\* method flag or the trick flag is false; each is the default boilerplate
\* otherwise.
C33_ThreeWeaknesses ==
  RubricScored
    => LET matches == call.result.value.matches
           weaknesses == call.result.value.weaknesses_top3
       IN  /\ Len(weaknesses) = 3
           /\ WeaknessIs(weaknesses[1], ~matches.killer,
                         "wrong killer selection", "claims not connected to evidence")
           /\ WeaknessIs(weaknesses[2], ~matches.motive,
                         "motive analysis missed financial pressure",
                         "timeline interpretation needs validation")
           /\ WeaknessIs(weaknesses[3], ~matches.method \/ ~matches.trick,
                         "mechanism underexplained", "liar testimony not cross-checked")

\* a Japanese guess with the method right and the trick wrong got the
\* mechanism text third and the two defaults before it
C33_Witness ==
  /\ RubricScored
  /\ call.args.language_mode = "ja"
  /\ call.result.value.matches
       = [killer |-> TRUE, motive |-> TRUE, method |-> TRUE, trick |-> FALSE]
  /\ call.result.value.weaknesses_top3
       = << <<"ja", "claims not connected to evidence">>,
            <<"ja", "timeline interpretation needs validation">>,
            <<"ja", "mechanism underexplained">> >>

\* evaluate returned the generator's payload as its result
PayloadReturned ==
  /\ Evaluated
  /\ call.args.llm_result.type = "dict"
  /\ call.result.value.source = "llm"
  /\ \A field \in {"score", "grade", "matches", "feedback", "weaknesses_top3"} :
       call.result.value[field] = call.args.llm_result[field]

\* the payload's matches field is a record of four booleans
MatchesOfFourBooleans(payload) ==
  /\ payload.matches_is_dict
  /\ DOMAIN payload.matches = {"killer", "motive", "method", "trick"}
  /\ \A flag \in DOMAIN payload.matches : payload.matches[flag] \in BOOLEAN

\* C32: a generator-supplied payload is returned as the result only if it
\* carries all required fields and its matches field is a record of four
\* booleans; an absent, empty or incomplete payload leaves the result to
\* the rubric.
C32_OnlyCompletePayloadsAreReturned ==
  Evaluated
    => /\ PayloadReturned
            => /\ call.args.llm_result.has_required
               /\ MatchesOfFourBooleans(call.args.llm_result)
       /\ ~PayloadReturned => call.result.value.source = "rubric"

\* more questions of the game were answered than the configured maximum
Overshoot(g) == Len(games[g].messages) > settings.max_questions

\* the step commits an ask of request r that loaded the game before
\* another request's commit changed it
StaleCommit(r) ==
  /\ sessions.loaded[r] # <<>>
  /\ sessions'.loaded[r] = <<>>
  /\ sessions.loaded[r][1] # games["g1"]

\* the step appends a message and leaves the stored counter where it was
\* or higher
UncountedMessage(g) ==
  /\ Len(games'[g].messages) > Len(games[g].messages)
  /\ games'[g].remaining_questions >= games[g].remaining_questions

\* C34: with the calls on a game serialized the game never holds more
\* messages than the configured maximum; a message is appended without the
\* stored counter going down only by an ask that loaded the game before
\* another ask committed.
C34_OvershootNeedsConcurrentAsks ==
  /\ [](sessions.lock => ~Overshoot("g1"))
  /\ [][UncountedMessage("g1") => \E r \in Requests : StaleCommit(r)]_vars

\* two asks that both loaded the game at remaining_questions = 1 have both
\* committed: two messages with a maximum of 1
C34_Witness ==
  /\ ~sessions.lock
  /\ settings.max_questions = 1
  /\ Len(games["g1"].messages) = 2
  /\ games["g1"].remaining_questions = 0
  /\ games["g1"].status = "GUESSING"
  /\ last.response.status_code = 200
  /\ \A r \in Requests : sessions.loaded[r] = <<>>

\* the step is a successful ask on g: one message more, the counter one less
CountedAsk(g) ==
  /\ last'.op = "ask"
  /\ last'.game_id = g
  /\ last'.response.status_code = 200
  /\ Len(games'[g].messages) = Len(games[g].messages) + 1
  /\ SubSeq(games'[g].messages, 1, Len(games[g].messages)) = games[g].messages
  /\ games'[g].remaining_questions = games[g].remaining_questions - 1

\* C35: with a configured maximum of 1 or more, the stored messages of a
\* game and its remaining_questions add up to the configured maximum in
\* every state; a step either appends one message and takes one off the
\* counter, by a successful ask, or leaves both as they are.
C35_MessagesPlusRemainingIsMaximum ==
  /\ [](settings.max_questions >= 1
          => \A g \in DOMAIN games :
               Len(games[g].messages) + games[g].remaining_questions
                 = settings.max_questions)
  /\ [][settings.max_questions >= 1
          => \A g \in DOMAIN games :
               \/ CountedAsk(g)
               \/ /\ games'[g].messages = games[g].messages
                  /\ games'[g].remaining_questions = games[g].remaining_questions]_vars

\* a game of two questions was asked twice, then guessed and ended: two
\* messages and a counter of 0
C35_Witness ==
  /\ settings.max_questions = 2
  /\ "g1" \in DOMAIN games
  /\ Len(games["g1"].messages) = 2
  /\ games["g1"].remaining_questions = 0
  /\ games["g1"].guess # <<>>
  /\ games["g1"].status = "ENDED"

\* C36: in a game created with a configured maximum of 1 or more, status
\* PLAYING implies remaining_questions >= 1, a counter of 0 implies status
\* GUESSING, RESULT or ENDED, and no ask succeeds on a counter of 0.
C36_PlayingHasQuestionsLeft ==
  /\ [](settings.max_questions >= 1
          => \A g \in DOMAIN games :
               /\ games[g].status = "PLAYING" => games[g].remaining_questions >= 1
               /\ games[g].remaining_questions = 0
                    => games[g].status \in {"GUESSING", "RESULT", "ENDED"})
  /\ [][settings.max_questions >= 1
          => \A g \in GameIds :
               Called("ask", g) /\ last'.response.status_code = 200
                 => games[g].remaining_questions >= 1]_vars

\* the only question of a game was asked: the counter is 0 and the status
\* GUESSING
C36_Witness ==
  /\ settings.max_questions = 1
  /\ last.op = "ask"
  /\ last.response.status_code = 200
  /\ games[last.game_id].remaining_questions = 0
  /\ games[last.game_id].status = "GUESSING"

\* the response is one of the errors NotFound, InvalidState, UpstreamUnavailable
ErrorResponse(response) ==
  \/ response.status_code = 404 /\ response.error_code = "NOT_FOUND"
  \/ response.status_code = 409 /\ response.error_code = "INVALID_STATE"
  \/ UpstreamUnavailable(response)

\* C37: a call of ask, submit_guess, move_to_guessing or patch_language
\* that ends in NotFound, InvalidState or UpstreamUnavailable leaves the
\* game's status, remaining_questions, unlocked_evidence_count,
\* language_mode, messages and guess as they were before the call.
C37_FailedCallsChangeNothing ==
  [][/\ last'.op \in {"ask", "submit_guess", "move_to_guessing", "patch_language"}
     /\ ErrorResponse(last'.response)
     => /\ DOMAIN games' = DOMAIN games
        /\ \A g \in DOMAIN games :
             \A field \in {"status", "remaining_questions", "unlocked_evidence_count",
                           "language_mode", "messages", "guess"} :
               games'[g][field] = games[g][field]]_vars

\* an ask on a game that holds a message already ended in UpstreamUnavailable
C37_Witness ==
  /\ last.op = "ask"
  /\ UpstreamUnavailable(last.response)
  /\ games[last.game_id].status = "PLAYING"
  /\ Len(games[last.game_id].messages) = 1
  /\ games[last.game_id].remaining_questions = 1

\* what get_game and _history_of_game decode from the message stored last
DecodedMessage(game) ==
  split_answer_and_follow_up_questions(game.messages[Len(game.messages)].answer_text,
                                       game.messages[Len(game.messages)].language_mode,
                                       FALSE)

\* C38: the answer_text and the follow_up_questions decoded from the stored
\* text of a message are those that the ask which created the message
\* returned, for every generator output and both languages.
C38_StoredMessageDecodesToReturnedAnswer ==
  [][\A g \in GameIds :
       Called("ask", g) /\ last'.response.status_code = 200
         => /\ DecodedMessage(games'[g])[1] = last'.result.answer_text
            /\ DecodedMessage(games'[g])[2] = last'.result.follow_up_questions]_vars

\* C39: whatever validated case a game holds and whatever the generator
\* returns, ask on a PLAYING game ends in success or in UpstreamUnavailable,
\* never in an unhandled internal error.
C39_AskSucceedsOrIsUnavailable ==
  [][\A g \in GameIds :
       Called("ask", g) /\ games[g].status = "PLAYING"
         => \/ last'.response.status_code = 200
            \/ UpstreamUnavailable(last'.response)]_vars

\* the step is a successful submit_guess on g
GuessSubmitted(g) == Called("submit_guess", g) /\ last'.response.status_code = 200

\* C40: submit_guess succeeds at most once per game; a game has a Guess
\* record exactly when its status is RESULT, or ENDED reached from RESULT;
\* the stored guess, its score and its grade are written by the one
\* successful submit_guess and changed by no later operation.
C40_GuessWrittenOnce ==
  /\ [](\A g \in DOMAIN games :
          /\ games[g].status = "RESULT" => games[g].guess # <<>>
          /\ games[g].guess # <<>> => games[g].status \in {"RESULT", "ENDED"})
  /\ [][\A g \in DOMAIN games :
          /\ GuessSubmitted(g) => games[g].guess = <<>> /\ games'[g].guess # <<>>
          /\ games[g].guess # <<>> => games'[g].guess = games[g].guess
          /\ games'[g].guess # games[g].guess
               => GuessSubmitted(g) /\ games'[g].status = "RESULT"
          /\ games'[g].status = "ENDED" /\ games[g].status # "ENDED"
               => (games'[g].guess # <<>> <=> games[g].status = "RESULT")]_vars

\* a second submit_guess on a game that shows its result was refused, the
\* guess still stored
C40_Witness ==
  /\ last.op = "submit_guess"
  /\ InvalidState(last.response, "RESULT")
  /\ games[last.game_id].status = "RESULT"
  /\ Len(games[last.game_id].guess) = 1

====
